---- MODULE Spec2Model ----
(***************************************************************************)
(* Log-analysis scripts of test-logs/layout-testing-20250918:              *)
(*   analyze_round2_detailed.py  (Round2DetailedAnalyzer)                  *)
(*   analyze_round2.py           (Round2Analyzer)                          *)
(*   Round 1/analysis_script.py  (analyze_log_file, summarize_results)     *)
(*   Round 1/detailed_layout_analysis.py (grade patterns)                  *)
(* Strings the code inspects character by character are sequences of code  *)
(* points; strings it only compares or formats are TLA+ strings.           *)
(***************************************************************************)
EXTENDS Integers, Sequences, FiniteSets, TLC

VARIABLES
    \* Round2DetailedAnalyzer fields (analyze_round2_detailed.py:15-19)
    issues, stats, question_samples,
    \* Round2Analyzer fields (analyze_round2.py:15-18)
    r2_issues, r2_stats,
    \* the question record and the context one classification call receives
    question, cstudent, cgrade, csubject, ccareer, cq_id,
    \* which classifier has been applied to the record
    calledD, calledB,
    \* Round 1 scripts: the script that runs, the log files it found, and the
    \* locals of its main() (summary and grade_patterns are built loop by loop)
    script, files, all_results, summary, grade_patterns, fold_i, report, export, pc,
    \* Round2DetailedAnalyzer.analyze_all_students: position in the run, index of
    \* the student directory, context of the file being scanned, and the log
    \* files read so far with the lines scanned from each
    rpc, sidx, current_subject, current_career, processed,
    \* what print_detailed_summary has printed
    printed,
    \* Round2Analyzer.analyze_all_students: position in the run, index of the
    \* student directory, the logs analysed so far, and what print_summary
    \* has printed
    r2_pc, r2_sidx, r2_logs, r2_printed

(***************************************************************************)
(* Program constants                                                       *)
(***************************************************************************)

\* expected number of practice questions (analyze_round2_detailed.py:107)
ExpectedPractice == 5
\* shortest all-caps word the capitalisation check reports (r'\b[A-Z]{4,}\b')
MinCapsRun == 4
\* emoji_pattern of Round2DetailedAnalyzer: [\U0001F300-\U0001F9FF]
EmojiLo == 127744
EmojiHi == 129535
\* emoji_pattern of Round2Analyzer: [\u263a-\U0001f645]
R2EmojiLo == 9786
R2EmojiHi == 128581
\* U+1F6E0 hammer and wrench, U+1F4E3 megaphone, U+2753 question mark ornament
ToolGlyph == 128736
MegaphoneGlyph == 128227
PlaceholderGlyph == 10067
\* '?'
QuestionMark == 63
\* lengths of the text excerpts quoted in samples and findings
SampleLen == 100
DupExcerptLen == 30
ExcerptLen == 50

\* shortest all-caps word analysis_script.py reports (r'\b[A-Z]{2,}\b')
R1MinCapsRun == 2
\* grade bands of analyze_grade_patterns
BandK2Max == 2
Band38Max == 8
\* issues kept per result in detailed_layout_analysis.json
ExportIssueCap == 10
\* findings a Round 2 report shows per issue kind ("[:3]")
PreviewLen == 3

(***************************************************************************)
(* Bounds of the model                                                     *)
(***************************************************************************)

\* log files one Round 1 run finds
MaxFiles == 3

\* lines read in one run of analyze_all_students
MaxLines == 3

\* log files one run of Round2Analyzer.analyze_all_students reads
MaxLogs == 2

\* Python None (current_subject / current_career before any marker)
PyNone == "<None>"

(***************************************************************************)
(* Character and string primitives (Python str / re semantics)             *)
(***************************************************************************)

\* str.lower() on one code point (ASCII letters; other code points of the
\* fixtures have no lower-case mapping)
LowerChar(c) == IF c \in 65..90 THEN c + 32 ELSE c

Lower(s) == [i \in 1..Len(s) |-> LowerChar(s[i])]

\* regex class [A-Z]
IsUpperAZ(c) == c \in 65..90

\* regex class \w restricted to the code points that occur in the fixtures:
\* ASCII letters, digits and underscore are word characters; blanks,
\* punctuation and pictographs are not
IsWordChar(c) == c \in 48..57 \/ c \in 65..90 \/ c \in 97..122 \/ c = 95

\* Python "t in s" for strings
Contains(s, t) ==
    \E i \in 0..(Len(s) - Len(t)) : \A j \in 1..Len(t) : s[i + j] = t[j]

\* Python s.endswith(t)
EndsWith(s, t) ==
    /\ Len(t) <= Len(s)
    /\ \A j \in 1..Len(t) : s[Len(s) - Len(t) + j] = t[j]

\* Python s[:n]
Prefix(s, n) == IF Len(s) <= n THEN s ELSE SubSeq(s, 1, n)

\* Python any(term in s for term in terms)
AnyIn(terms, s) == \E t \in terms : Contains(s, t)

\* re.search(r'\b[A-Z]{n,}\b', s): a run of at least n [A-Z] with a word
\* boundary on both sides
HasCapsWord(s, n) ==
    \E i \in 1..Len(s) : \E j \in i..Len(s) :
        /\ j - i + 1 >= n
        /\ \A k \in i..j : IsUpperAZ(s[k])
        /\ (i = 1 \/ ~IsWordChar(s[i - 1]))
        /\ (j = Len(s) \/ ~IsWordChar(s[j + 1]))

\* the characters of s that fall in the code point range lo..hi, in order:
\* ''.join(re.findall(r'[lo-hi]+', s))
RECURSIVE CharsInRange(_, _, _)
CharsInRange(s, lo, hi) ==
    IF s = <<>> THEN <<>>
    ELSE (IF Head(s) >= lo /\ Head(s) <= hi THEN <<Head(s)>> ELSE <<>>)
         \o CharsInRange(Tail(s), lo, hi)

Range(s) == {s[i] : i \in 1..Len(s)}

HasAllCapsWord(s) == HasCapsWord(s, MinCapsRun)

(***************************************************************************)
(* Literals of the source and the question fixtures, as code points        *)
(***************************************************************************)

\* T_answer: "What is the answer?"
T_answer ==
    <<87, 104, 97, 116, 32, 105, 115, 32, 116, 104, 101, 32, 97, 110, 115, 119,
      101, 114, 63>>
\* T_vowels: "How many vowels are in this word"
T_vowels ==
    <<72, 111, 119, 32, 109, 97, 110, 121, 32, 118, 111, 119, 101, 108, 115, 32,
      97, 114, 101, 32, 105, 110, 32, 116, 104, 105, 115, 32, 119, 111, 114, 100>>
\* T_apples: "How many apples are there"
T_apples ==
    <<72, 111, 119, 32, 109, 97, 110, 121, 32, 97, 112, 112, 108, 101, 115, 32,
      97, 114, 101, 32, 116, 104, 101, 114, 101>>
\* T_blankq: "The cat sat on the _____?"
T_blankq ==
    <<84, 104, 101, 32, 99, 97, 116, 32, 115, 97, 116, 32, 111, 110, 32, 116,
      104, 101, 32, 95, 95, 95, 95, 95, 63>>
\* T_midq: "Ready? The sky is blue"
T_midq ==
    <<82, 101, 97, 100, 121, 63, 32, 84, 104, 101, 32, 115, 107, 121, 32, 105,
      115, 32, 98, 108, 117, 101>>
\* T_rhyme: "Pick the rhyme"
T_rhyme == <<80, 105, 99, 107, 32, 116, 104, 101, 32, 114, 104, 121, 109, 101>>
\* T_whistle: "How many whistles does Coach have"
T_whistle ==
    <<72, 111, 119, 32, 109, 97, 110, 121, 32, 119, 104, 105, 115, 116, 108, 101,
      115, 32, 100, 111, 101, 115, 32, 67, 111, 97, 99, 104, 32, 104, 97, 118,
      101>>
\* T_balls: "Count the <U+1F3C0><U+1F3C0>"
T_balls == <<67, 111, 117, 110, 116, 32, 116, 104, 101, 32, 127936, 127936>>
\* T_play: "PLAY the game"
T_play == <<80, 76, 65, 89, 32, 116, 104, 101, 32, 103, 97, 109, 101>>
\* T_learn: "LEARN to read"
T_learn == <<76, 69, 65, 82, 78, 32, 116, 111, 32, 114, 101, 97, 100>>
\* T_games: "Play GAMEs now"
T_games == <<80, 108, 97, 121, 32, 71, 65, 77, 69, 115, 32, 110, 111, 119>>
\* V_empty: ""
V_empty == <<>>
\* V_placeholder: "<U+2753>"
V_placeholder == <<10067>>
\* V_tools: "<U+1F6E0><U+1F6E0><U+1F6E0>"
V_tools == <<128736, 128736, 128736>>
\* V_balls: "<U+1F3C0><U+1F3C0>"
V_balls == <<127936, 127936>>
\* V_football: "<U+1F3C8>"
V_football == <<127944>>
\* V_megaphone: "<U+1F4E3>"
V_megaphone == <<128227>>
\* W_number: "number"
W_number == <<110, 117, 109, 98, 101, 114>>
\* W_counting: "counting"
W_counting == <<99, 111, 117, 110, 116, 105, 110, 103>>
\* W_how_many: "how many"
W_how_many == <<104, 111, 119, 32, 109, 97, 110, 121>>
\* W_add: "add"
W_add == <<97, 100, 100>>
\* W_subtract: "subtract"
W_subtract == <<115, 117, 98, 116, 114, 97, 99, 116>>
\* W_first: "first"
W_first == <<102, 105, 114, 115, 116>>
\* W_second: "second"
W_second == <<115, 101, 99, 111, 110, 100>>
\* W_third: "third"
W_third == <<116, 104, 105, 114, 100>>
\* W_consonant: "consonant"
W_consonant == <<99, 111, 110, 115, 111, 110, 97, 110, 116>>
\* W_vowel: "vowel"
W_vowel == <<118, 111, 119, 101, 108>>
\* W_letter: "letter"
W_letter == <<108, 101, 116, 116, 101, 114>>
\* W_uppercase: "uppercase"
W_uppercase == <<117, 112, 112, 101, 114, 99, 97, 115, 101>>
\* W_lowercase: "lowercase"
W_lowercase == <<108, 111, 119, 101, 114, 99, 97, 115, 101>>
\* W_word: "word"
W_word == <<119, 111, 114, 100>>
\* W_sentence: "sentence"
W_sentence == <<115, 101, 110, 116, 101, 110, 99, 101>>
\* W_whistle: "whistle"
W_whistle == <<119, 104, 105, 115, 116, 108, 101>>
\* W_coach: "coach"
W_coach == <<99, 111, 97, 99, 104>>
\* W_blank: "_____"
W_blank == <<95, 95, 95, 95, 95>>
\* W_fill_blank: "fill_blank"
W_fill_blank == <<102, 105, 108, 108, 95, 98, 108, 97, 110, 107>>
\* W_multiple_choice: "multiple_choice"
W_multiple_choice ==
    <<109, 117, 108, 116, 105, 112, 108, 101, 95, 99, 104, 111, 105, 99, 101>>
\* K_open: "{'type': '"
K_open == <<123, 39, 116, 121, 112, 101, 39, 58, 32, 39>>
\* K_question: "', 'question': '"
K_question == <<39, 44, 32, 39, 113, 117, 101, 115, 116, 105, 111, 110, 39, 58, 32, 39>>
\* K_visual: "', 'visual': '"
K_visual == <<39, 44, 32, 39, 118, 105, 115, 117, 97, 108, 39, 58, 32, 39>>
\* K_close: "'}"
K_close == <<39, 125>>
\* W_LEARN: "LEARN"
W_LEARN == <<76, 69, 65, 82, 78>>
\* W_Coach: "Coach"
W_Coach == <<67, 111, 97, 99, 104>>
\* W_Chef: "Chef"
W_Chef == <<67, 104, 101, 102>>

\* T_upper: "Which is uppercase: PLAY or play"
T_upper ==
    <<87, 104, 105, 99, 104, 32, 105, 115, 32, 117, 112, 112, 101, 114, 99, 97,
      115, 101, 58, 32, 80, 76, 65, 89, 32, 111, 114, 32, 112, 108, 97, 121>>
\* W_capital: "capital"
W_capital == <<99, 97, 112, 105, 116, 97, 108>>
\* N_sam_k: "sam-k"
N_sam_k == <<115, 97, 109, 45, 107>>
\* N_alex_1: "alex-1"
N_alex_1 == <<97, 108, 101, 120, 45, 49>>
\* N_jordan_7: "jordan-7"
N_jordan_7 == <<106, 111, 114, 100, 97, 110, 45, 55>>
\* N_taylor_10: "taylor-10"
N_taylor_10 == <<116, 97, 121, 108, 111, 114, 45, 49, 48>>
\* W_k: "k"
W_k == <<107>>
\* W_dash1: "-1"
W_dash1 == <<45, 49>>
\* W_dash7: "-7"
W_dash7 == <<45, 55>>
\* W_dash10: "-10"
W_dash10 == <<45, 49, 48>>
\* N_morgan_3: "morgan-3"
N_morgan_3 == <<109, 111, 114, 103, 97, 110, 45, 51>>

\* W_converting: "converting"
W_converting == <<99, 111, 110, 118, 101, 114, 116, 105, 110, 103>>
\* W_question: "question"
W_question == <<113, 117, 101, 115, 116, 105, 111, 110>>
\* W_chef: "chef"
W_chef == <<99, 104, 101, 102>>
\* W_doctor: "doctor"
W_doctor == <<100, 111, 99, 116, 111, 114>>
\* W_teacher: "teacher"
W_teacher == <<116, 101, 97, 99, 104, 101, 114>>
\* W_practice: "practice"
W_practice == <<112, 114, 97, 99, 116, 105, 99, 101>>
\* W_slice: "slice(0, 3)"
W_slice == <<115, 108, 105, 99, 101, 40, 48, 44, 32, 51, 41>>
\* W_visual_colon: "visual:"
W_visual_colon == <<118, 105, 115, 117, 97, 108, 58>>
\* W_layout: "layout"
W_layout == <<108, 97, 121, 111, 117, 116>>
\* W_validation: "validation"
W_validation == <<118, 97, 108, 105, 100, 97, 116, 105, 111, 110>>
\* W_error: "error"
W_error == <<101, 114, 114, 111, 114>>
\* K_None: "None"
K_None == <<78, 111, 110, 101>>
\* K_comma: ", "
K_comma == <<44, 32>>
\* K_practice_key: "'practice': "
K_practice_key == <<39, 112, 114, 97, 99, 116, 105, 99, 101, 39, 58, 32>>
\* K_assessment_key: "'assessment': "
K_assessment_key ==
    <<39, 97, 115, 115, 101, 115, 115, 109, 101, 110, 116, 39, 58, 32>>
\* K_jit_key: "'jitContent': {"
K_jit_key ==
    <<39, 106, 105, 116, 67, 111, 110, 116, 101, 110, 116, 39, 58, 32, 123>>
\* K_validation_key: "'validation': {'error': '"
K_validation_key ==
    <<39, 118, 97, 108, 105, 100, 97, 116, 105, 111, 110, 39, 58, 32, 123, 39,
      101, 114, 114, 111, 114, 39, 58, 32, 39>>
\* W_missing_field: "missing field"
W_missing_field ==
    <<109, 105, 115, 115, 105, 110, 103, 32, 102, 105, 101, 108, 100>>

\* the characters of a string the model otherwise keeps as a TLA+ string
Chars(s) ==
    CASE s = "Coach" -> W_Coach
      [] s = "Chef" -> W_Chef
      [] s = "ELA" -> <<69, 76, 65>>
      [] s = "MATH" -> <<77, 65, 84, 72>>
      [] s = "missing field" -> W_missing_field
      [] s = "counting" -> W_counting
      [] s = "fill_blank" -> W_fill_blank
      [] s = "multiple_choice" -> W_multiple_choice

\* math_terms / ela_terms of check_ela_question
math_terms ==
    {W_number, W_counting, W_how_many, W_add, W_subtract, W_first, W_second, W_third}

ela_terms ==
    {W_consonant, W_vowel, W_letter, W_uppercase, W_lowercase, W_word, W_sentence}

\* the word list of Round2Analyzer.check_question
r2_math_words == {W_number, W_counting, W_how_many, W_add, W_subtract}

(***************************************************************************)
(* Input domains                                                           *)
(***************************************************************************)

\* students of analyze_all_students, with the grade passed along
Students ==
    << [dir |-> "sam-k", grade |-> "K"], [dir |-> "alex-1", grade |-> "1"],
       [dir |-> "jordan-7", grade |-> "7"], [dir |-> "taylor-10", grade |-> "10"] >>

StudentDirs == {Students[i].dir : i \in 1..Len(Students)}

Subjects == {"ELA", "MATH", "UNKNOWN", PyNone}

Careers == {"Coach", "Chef", PyNone}

QTypes == {"counting", "fill_blank", "multiple_choice"}

Texts ==
    {T_answer, T_vowels, T_apples, T_blankq, T_midq, T_rhyme, T_whistle,
     T_balls, T_play, T_learn, T_games}

Visuals == {V_empty, V_placeholder, V_tools, V_balls, V_football, V_megaphone}

\* a JSON value that is not an object (a string, a number, null)
NotADict == [isDict |-> FALSE]

QuestionDicts ==
    [isDict : {TRUE}, type : QTypes, question : Texts, visual : Visuals]

Questions == QuestionDicts \cup {NotADict}

\* q_id: f"Practice{i+1}" or "Assessment"
PracticeId(i) == [kind |-> "Practice", n |-> i]
AssessmentId == [kind |-> "Assessment", n |-> 0]

(***************************************************************************)
(* Round2DetailedAnalyzer                                                  *)
(***************************************************************************)

IssueKinds ==
    {"subject_contamination", "validation", "emoji_duplication", "wrong_emoji",
     "fill_blank_format", "uppercase", "missing_career", "low_practice"}

LayoutNames == {"layoutGrid4"}

StatKeys ==
    {"practice_count", "missing_career", "practice_mismatch", "answer_box_issues"}
        \cup LayoutNames

\* __init__: empty defaultdicts
NewAnalyzer ==
    [issues |-> [k \in IssueKinds |-> <<>>],
     stats |-> [s \in StudentDirs |-> [k \in StatKeys |-> 0]],
     question_samples |-> [s \in Subjects |-> <<>>]]

\* an analyzer that keeps a Finding only when its list does not hold it yet
AddIssueOnce(A, kind, f) ==
    IF \E i \in 1..Len(A.issues[kind]) : A.issues[kind][i] = f
    THEN A
    ELSE [A EXCEPT !.issues[kind] = Append(@, f)]

\* self.issues[kind].append(f)
AddIssue(A, kind, f) == [A EXCEPT !.issues[kind] = Append(@, f)]

check_counting_question(A, q, student, grade, subject, career, q_id) ==
    LET q_text == q.question
        visual == q.visual
        text_emojis == CharsInRange(q_text, EmojiLo, EmojiHi)
        visual_emojis == CharsInRange(visual, EmojiLo, EmojiHi)
        A1 == IF /\ visual # <<>>
                 /\ visual # <<PlaceholderGlyph>>
                 /\ text_emojis # <<>>
                 /\ visual_emojis # <<>>
                 /\ \E c \in Range(text_emojis) : c \in Range(visual)
              THEN AddIssue(A, "emoji_duplication",
                       [student |-> student, subject |-> subject, q_id |-> q_id,
                        text |-> Prefix(q_text, DupExcerptLen), visual |-> visual])
              ELSE A
        A2 == IF career = "Coach" /\ ToolGlyph \in Range(visual)
              THEN AddIssue(A1, "wrong_emoji",
                       [student |-> student, q_id |-> q_id, msg |-> "tool"])
              ELSE A1
    IN  IF /\ Contains(Lower(q_text), W_whistle)
           /\ visual # <<>>
           /\ MegaphoneGlyph \notin Range(visual)
        THEN AddIssue(A2, "wrong_emoji",
                 [student |-> student, q_id |-> q_id, msg |-> "whistle",
                  visual |-> visual])
        ELSE A2

check_ela_question(A, q, student, grade, q_id) ==
    LET q_text == q.question
        has_math == AnyIn(math_terms, Lower(q_text))
        has_ela == AnyIn(ela_terms, Lower(q_text))
        A1 == IF has_math /\ ~has_ela
              THEN AddIssue(A, "subject_contamination",
                       [student |-> student, subject |-> "ELA", q_id |-> q_id,
                        text |-> Prefix(q_text, ExcerptLen)])
              ELSE A
    IN  IF HasAllCapsWord(q_text)
        THEN AddIssue(A1, "uppercase",
                 [student |-> student, subject |-> "ELA", q_id |-> q_id,
                  text |-> Prefix(q_text, ExcerptLen)])
        ELSE A1

\* a check that keeps the newest fill_blank_format Finding first
check_fill_blankNewestFirst(A, q, student, subject, q_id) ==
    IF EndsWith(q.question, <<QuestionMark>>)
    THEN [A EXCEPT !.issues["fill_blank_format"] =
             <<[student |-> student, subject |-> subject, q_id |-> q_id,
                text |-> Prefix(q.question, ExcerptLen)]>> \o @]
    ELSE A

check_fill_blank(A, q, student, subject, q_id) ==
    IF EndsWith(q.question, <<QuestionMark>>)
    THEN AddIssue(A, "fill_blank_format",
             [student |-> student, subject |-> subject, q_id |-> q_id,
              text |-> Prefix(q.question, ExcerptLen)])
    ELSE A

\* the career name is missing from the question text (line 160)
CareerMissing(career, q_text) == ~Contains(Lower(q_text), Lower(Chars(career)))

\* an analyzer that also records a Finding when the career is missing
analyze_questionRecordingCareer(A, q, student, grade, subject, career, q_id) ==
    IF ~q.isDict THEN A
    ELSE
    LET q_type == q.type
        q_text == q.question
        sample == [student |-> student, grade |-> grade, subject |-> subject,
                   career |-> career, type |-> q_type,
                   question |-> IF Len(q_text) > SampleLen
                                THEN Prefix(q_text, SampleLen) \o <<46, 46, 46>>
                                ELSE q_text,
                   visual |-> q.visual]
        A0 == [A EXCEPT !.question_samples[subject] = Append(@, sample)]
        A1 == IF q_type = "counting"
              THEN check_counting_question(A0, q, student, grade, subject, career, q_id)
              ELSE A0
        A2 == IF subject = "ELA"
              THEN check_ela_question(A1, q, student, grade, q_id)
              ELSE A1
        A3 == IF q_type = "fill_blank"
              THEN check_fill_blank(A2, q, student, subject, q_id)
              ELSE A2
    IN  IF career # PyNone /\ grade # "K" /\ CareerMissing(career, q_text)
        THEN AddIssue([A3 EXCEPT !.stats[student]["missing_career"] = @ + 1],
                      "missing_career", [student |-> student, q_id |-> q_id])
        ELSE A3

analyze_question(A, q, student, grade, subject, career, q_id) ==
    IF ~q.isDict THEN A
    ELSE
    LET q_type == q.type
        q_text == q.question
        sample == [student |-> student, grade |-> grade, subject |-> subject,
                   career |-> career, type |-> q_type,
                   question |-> IF Len(q_text) > SampleLen
                                THEN Prefix(q_text, SampleLen) \o <<46, 46, 46>>
                                ELSE q_text,
                   visual |-> q.visual]
        A0 == [A EXCEPT !.question_samples[subject] = Append(@, sample)]
        A1 == IF q_type = "counting"
              THEN check_counting_question(A0, q, student, grade, subject, career, q_id)
              ELSE A0
        A2 == IF subject = "ELA"
              THEN check_ela_question(A1, q, student, grade, q_id)
              ELSE A1
        A3 == IF q_type = "fill_blank"
              THEN check_fill_blank(A2, q, student, subject, q_id)
              ELSE A2
    IN  IF career # PyNone /\ grade # "K" /\ CareerMissing(career, q_text)
        THEN [A3 EXCEPT !.stats[student]["missing_career"] = @ + 1]
        ELSE A3

(***************************************************************************)
(* Round2Analyzer                                                          *)
(***************************************************************************)

R2IssueKinds ==
    {"validation", "subject_contamination", "wrong_emoji", "emoji_duplication",
     "fill_blank_format", "missing_career"}

R2StatKeys ==
    {"practice_count", "missing_career", "emoji_duplication", "uppercase_issues",
     "low_practice_count", "layout_Vertical", "layout_Grid2", "layout_Grid3",
     "layout_Grid4"}

R2NewAnalyzer ==
    [issues |-> [k \in R2IssueKinds |-> <<>>],
     stats |-> [s \in StudentDirs |-> [k \in R2StatKeys |-> 0]]]

\* str(question): the repr of a dict with the keys type, question, visual
StrOfQuestion(q) ==
    K_open \o Chars(q.type) \o K_question \o q.question \o K_visual \o q.visual
    \o K_close

\* the fill-blank test of Round2Analyzer.check_question (line 164)
R2FillBlankIsQuestion(q_text) ==
    QuestionMark \in Range(q_text) /\ ~Contains(q_text, W_blank)

\* Round2Analyzer.check_question
check_question(R, q, student, subject, q_type) ==
    IF ~q.isDict THEN R
    ELSE
    LET q_text == q.question
        visual == q.visual
        text_emojis == CharsInRange(q_text, R2EmojiLo, R2EmojiHi)
        visual_emojis == CharsInRange(visual, R2EmojiLo, R2EmojiHi)
        counting == q.type = "counting" /\ visual # <<>> /\ visual # <<PlaceholderGlyph>>
        R1 == IF counting /\ text_emojis # <<>> /\ visual_emojis # <<>>
              THEN AddIssue(R, "emoji_duplication",
                       [student |-> student, subject |-> subject, q_type |-> q_type])
              ELSE R
        R2 == IF counting /\ Contains(Lower(q_text), W_coach)
                          /\ ToolGlyph \in Range(visual)
              THEN AddIssue(R1, "wrong_emoji",
                       [student |-> student, subject |-> subject, q_type |-> q_type])
              ELSE R1
        s == Lower(StrOfQuestion(q))
        R3 == IF /\ subject = "ELA"
                 /\ AnyIn(r2_math_words, s)
                 /\ ~Contains(s, W_consonant)
                 /\ ~Contains(s, W_vowel)
              THEN AddIssue(R2, "subject_contamination",
                       [student |-> student, subject |-> "ELA", q_type |-> q_type])
              ELSE R2
    IN  IF q.type = "fill_blank" /\ R2FillBlankIsQuestion(q_text)
        THEN AddIssue(R3, "fill_blank_format",
                 [student |-> student, subject |-> subject, q_type |-> q_type])
        ELSE R3

(***************************************************************************)
(* Round 1: analysis_script.py                                             *)
(***************************************************************************)

\* a regex field that did not match
NoField == "<absent>"

LayoutTypes == {"grid-4", "vertical"}

ContentTypes == {"numeric", "longText"}

BlockSubjects == {"Math", "ELA"}

\* (pattern, error_type) pairs of error_patterns, in their order
ErrorTypes ==
    <<"TypeError", "Undefined error", "Undefined property access",
      "Missing correct_answer">>

ThreePracticeIssue == "Only 3 practice questions shown (expected 5)"

\* the issue texts analyze_log_file can report
IssueTexts == {ThreePracticeIssue}

\* values of "totalQuestions: N" that occur in the log fixtures
PracticeCounts == {3, 5, 30}

\* sum of the values of a Counter
SumValues(f) ==
    LET RECURSIVE Sum(_)
        Sum(S) == IF S = {} THEN 0
                  ELSE LET k == CHOOSE x \in S : TRUE
                       IN  f[k] + Sum(S \ {k})
    IN  Sum(DOMAIN f)

\* number of times x occurs in seq
CountOf(seq, x) == Cardinality({i \in 1..Len(seq) : seq[i] = x})

\* first decimal digit of n: "totalQuestions:\s*3" also matches 30
RECURSIVE FirstDigit(_)
FirstDigit(n) == IF n < 10 THEN n ELSE FirstDigit(n \div 10)

\* lines 55-57: the question text talks about upper case and holds an
\* all-caps word of at least two letters
IsUppercaseIssue(text) ==
    /\ text # NoField
    /\ (Contains(Lower(text), W_uppercase) \/ Contains(Lower(text), W_capital))
    /\ HasCapsWord(text, R1MinCapsRun)
    /\ Contains(Lower(text), W_uppercase)

\* analyze_log_file(log_path): the results of one log file.  A file is the
\* student directory it lies in, its layout decision blocks (the fields the
\* patterns extract from each), the totalQuestions values, the
\* convertedQuestionsReady: 3 marker and the error patterns it holds.
analyze_log_file(file) ==
    LET blocks == file.blocks
        texts == [i \in 1..Len(blocks) |-> blocks[i].text]
    IN  [student |-> file.student,
         layout_types |->
             [t \in LayoutTypes |->
                 Cardinality({i \in 1..Len(blocks) : blocks[i].layoutType = t})],
         content_types |->
             [t \in ContentTypes |->
                 Cardinality({i \in 1..Len(blocks) : blocks[i].contentType = t})],
         issues |->
             IF file.converted3
                \/ \E i \in 1..Len(file.totals) : FirstDigit(file.totals[i]) = 3
             THEN <<ThreePracticeIssue>> ELSE <<>>,
         practice_questions |->
             [c \in PracticeCounts |->
                 Cardinality({i \in 1..Len(file.totals) : file.totals[i] = c})],
         uppercase_issues |-> SelectSeq(texts, IsUppercaseIssue),
         errors |-> SelectSeq(ErrorTypes, LAMBDA e : e \in file.errors),
         subjects_tested |->
             {blocks[i].subject : i \in 1..Len(blocks)} \ {NoField}]

\* summarize_results: the summary before the loop
EmptySummary ==
    [total_layout_decisions |-> 0,
     layout_distribution |-> [t \in LayoutTypes |-> 0],
     content_distribution |-> [t \in ContentTypes |-> 0],
     common_issues |-> [x \in IssueTexts |-> 0],
     practice_question_counts |-> [c \in PracticeCounts |-> 0],
     subjects_by_student |-> <<>>,
     uppercase_issues_count |-> 0,
     errors_by_student |-> <<>>]

\* d[key] = value on a dict kept as a function
DictSet(d, key, value) == [k \in DOMAIN d \cup {key} |-> IF k = key THEN value ELSE d[k]]

\* the distributions assigned from the file's counters instead of added to
SummarizeStepAssigning(sm, result) ==
    [sm EXCEPT !.total_layout_decisions = @ + SumValues(result.layout_types),
               !.layout_distribution = result.layout_types,
               !.content_distribution = result.content_types]

\* summarize_results: one iteration of "for result in all_results"
SummarizeStep(sm, result) ==
    [total_layout_decisions |->
         sm.total_layout_decisions + SumValues(result.layout_types),
     layout_distribution |->
         [t \in LayoutTypes |-> sm.layout_distribution[t] + result.layout_types[t]],
     content_distribution |->
         [t \in ContentTypes |->
             sm.content_distribution[t] + result.content_types[t]],
     common_issues |->
         [x \in IssueTexts |->
             sm.common_issues[x] + CountOf(result.issues, x)],
     practice_question_counts |->
         [c \in PracticeCounts |->
             sm.practice_question_counts[c] + result.practice_questions[c]],
     subjects_by_student |->
         DictSet(sm.subjects_by_student, result.student, result.subjects_tested),
     uppercase_issues_count |->
         sm.uppercase_issues_count + Len(result.uppercase_issues),
     errors_by_student |->
         IF result.errors # <<>>
         THEN DictSet(sm.errors_by_student, result.student, result.errors)
         ELSE sm.errors_by_student]

\* summarize_results(all_results)
RECURSIVE FoldResults(_, _)
FoldResults(sm, results) ==
    IF results = <<>> THEN sm
    ELSE FoldResults(SummarizeStep(sm, Head(results)), Tail(results))

summarize_results(results) == FoldResults(EmptySummary, results)

\* a failed float division
ZeroDivisionError == [fault |-> "ZeroDivisionError"]

\* count / total * 100, kept as an exact fraction
PercentOf(count, total) ==
    IF total = 0 THEN ZeroDivisionError ELSE [num |-> count * 100, den |-> total]

\* the division without its guard: count / total * 100
PercentageUnguarded(count, total) == PercentOf(count, total)

\* percentage = (count / total * 100) if total > 0 else 0
Percentage(count, total) ==
    IF total > 0 THEN PercentOf(count, total) ELSE [num |-> 0, den |-> 1]

\* main, lines 175-179: one row per key of layout_distribution
LayoutReport(sm) ==
    LET total == sm.total_layout_decisions
        keys == {t \in LayoutTypes : sm.layout_distribution[t] > 0}
    IN  [t \in keys |->
            [count |-> sm.layout_distribution[t],
             percentage |-> Percentage(sm.layout_distribution[t], total)]]

\* dict(counter): the keys a Counter holds
DictOf(counter) == [k \in {x \in DOMAIN counter : counter[x] > 0} |-> counter[k]]

\* main, lines 207-231: the document written to analysis_results.json
JsonSummary(sm, results) ==
    [summary |->
        [total_layout_decisions |-> sm.total_layout_decisions,
         layout_distribution |-> DictOf(sm.layout_distribution),
         content_distribution |-> DictOf(sm.content_distribution),
         common_issues |-> DictOf(sm.common_issues),
         practice_question_counts |-> DictOf(sm.practice_question_counts),
         subjects_by_student |-> sm.subjects_by_student,
         uppercase_issues_count |-> sm.uppercase_issues_count,
         errors_by_student |-> sm.errors_by_student],
     detailed_results |->
        [i \in 1..Len(results) |->
            [student |-> results[i].student,
             layout_types |-> DictOf(results[i].layout_types),
             content_types |-> DictOf(results[i].content_types),
             issues |-> results[i].issues,
             errors |-> results[i].errors]]]

(***************************************************************************)
(* Round 1: detailed_layout_analysis.py                                    *)
(***************************************************************************)

\* the characters of a student directory name
NameChars(student) ==
    CASE student = "sam-k" -> N_sam_k
      [] student = "alex-1" -> N_alex_1
      [] student = "jordan-7" -> N_jordan_7
      [] student = "taylor-10" -> N_taylor_10
      [] student = "morgan-3" -> N_morgan_3

extract_grade(student_name) ==
    LET name == NameChars(student_name)
    IN  IF Contains(Lower(name), W_k) THEN 0
        ELSE IF Contains(name, W_dash1) THEN 1
        ELSE IF Contains(name, W_dash7) THEN 7
        ELSE IF Contains(name, W_dash10) THEN 10
        ELSE -1

\* the value a missing field gets in analyze_layout_patterns_by_context
OrUnknown(field) == IF field = NoField THEN "unknown" ELSE field

LayoutTypesU == LayoutTypes \cup {"unknown"}

BlockSubjectsU == BlockSubjects \cup {"unknown"}

\* the layout issue of one block, or NoField (lines 64-67)
LayoutIssueOf(block) ==
    LET layout_type == OrUnknown(block.layoutType)
        content_type == OrUnknown(block.contentType)
        subject == OrUnknown(block.subject)
    IN  IF layout_type = "vertical" /\ content_type = "numeric"
        THEN [issue |-> "Vertical layout for numeric content", subject |-> subject]
        ELSE IF layout_type = "grid-4" /\ content_type = "longText"
        THEN [issue |-> "Grid-4 layout for long text", subject |-> subject]
        ELSE [issue |-> NoField, subject |-> subject]

\* analyze_layout_patterns_by_context(log_path); the fields main never reads
\* (layout_by_content_length, vertical_usage, grid_usage) are left out
analyze_layout_patterns_by_context(file) ==
    LET blocks == file.blocks
        found == [i \in 1..Len(blocks) |-> LayoutIssueOf(blocks[i])]
    IN  [student |-> file.student,
         grade |-> extract_grade(file.student),
         layout_by_subject |->
             [s \in BlockSubjectsU |-> [t \in LayoutTypesU |->
                 Cardinality({i \in 1..Len(blocks) :
                     /\ OrUnknown(blocks[i].subject) = s
                     /\ OrUnknown(blocks[i].layoutType) = t})]],
         layout_issues |-> SelectSeq(found, LAMBDA f : f.issue # NoField)]

GradeBands == <<"K-2", "3-8", "9-12">>

EmptyGradePatterns ==
    [c \in {GradeBands[i] : i \in 1..Len(GradeBands)} |->
        [students |-> <<>>,
         layout_preference |-> [t \in LayoutTypesU |-> 0],
         subjects |-> [s \in BlockSubjectsU |-> [t \in LayoutTypesU |-> 0]]]]

\* the grade category of lines 111-116
GradeCategory(grade) ==
    IF grade <= BandK2Max THEN "K-2"
    ELSE IF grade <= Band38Max THEN "3-8"
    ELSE "9-12"

\* a fold that leaves the decisions without a subject out of the preferences
GradeStepKnownSubjects(gp, result) ==
    LET category == GradeCategory(result.grade)
        lbs == result.layout_by_subject
    IN  [gp EXCEPT ![category] =
            [students |-> Append(@.students, result.student),
             layout_preference |->
                 [t \in LayoutTypesU |->
                     @.layout_preference[t]
                     + SumValues([s \in BlockSubjects |-> lbs[s][t]])],
             subjects |->
                 [s \in BlockSubjectsU |-> [t \in LayoutTypesU |->
                     @.subjects[s][t] + lbs[s][t]]]]]

\* analyze_grade_patterns: one iteration of "for result in all_results"
GradeStep(gp, result) ==
    LET category == GradeCategory(result.grade)
        lbs == result.layout_by_subject
    IN  [gp EXCEPT ![category] =
            [students |-> Append(@.students, result.student),
             layout_preference |->
                 [t \in LayoutTypesU |->
                     @.layout_preference[t]
                     + SumValues([s \in BlockSubjectsU |-> lbs[s][t]])],
             subjects |->
                 [s \in BlockSubjectsU |-> [t \in LayoutTypesU |->
                     @.subjects[s][t] + lbs[s][t]]]]]

RECURSIVE FoldGrades(_, _)
FoldGrades(gp, results) ==
    IF results = <<>> THEN gp
    ELSE FoldGrades(GradeStep(gp, Head(results)), Tail(results))

analyze_grade_patterns(results) == FoldGrades(EmptyGradePatterns, results)

\* rows "layout: count (percentage%)" over the keys a Counter holds
PercentRows(counter) ==
    LET total == SumValues(counter)
        keys == {t \in DOMAIN counter : counter[t] > 0}
    IN  [t \in keys |->
            [count |-> counter[t], percentage |-> Percentage(counter[t], total)]]

\* main, lines 157-173: per band the overall rows and the rows by subject
\* (most_common(3) keeps every row: a Counter here has at most three keys)
BandReport(gp) ==
    [c \in DOMAIN gp |->
        [students |-> gp[c].students,
         overall |-> PercentRows(gp[c].layout_preference),
         by_subject |->
             [s \in {x \in BlockSubjectsU : SumValues(gp[c].subjects[x]) > 0} |->
                 PercentRows(gp[c].subjects[s])]]]

\* main, lines 212-232: the document written to detailed_layout_analysis.json
AnalysisData(gp, results) ==
    [grade_patterns |->
        [c \in DOMAIN gp |->
            [students |-> gp[c].students,
             layout_preference |-> DictOf(gp[c].layout_preference),
             subjects |->
                 [s \in {x \in BlockSubjectsU : SumValues(gp[c].subjects[x]) > 0} |->
                     DictOf(gp[c].subjects[s])]]],
     individual_results |->
        [i \in 1..Len(results) |->
            [student |-> results[i].student,
             grade |-> results[i].grade,
             layout_by_subject |->
                 [s \in {x \in BlockSubjectsU :
                            SumValues(results[i].layout_by_subject[x]) > 0} |->
                     DictOf(results[i].layout_by_subject[s])],
             issues |-> Prefix(results[i].layout_issues, ExportIssueCap)]]]

(***************************************************************************)
(* Round 1 log fixtures                                                    *)
(***************************************************************************)

\* layout decision blocks: the fields the patterns extract, NoField when a
\* pattern does not match; text is the captured question text, empty when the
\* block has none
B_grid_num_math ==
    [layoutType |-> "grid-4", contentType |-> "numeric", subject |-> "Math",
     text |-> T_rhyme]

B_vert_long_ela ==
    [layoutType |-> "vertical", contentType |-> "longText", subject |-> "ELA",
     text |-> T_upper]

B_vert_num ==
    [layoutType |-> "vertical", contentType |-> "numeric", subject |-> NoField,
     text |-> <<>>]

B_nolayout ==
    [layoutType |-> NoField, contentType |-> "numeric", subject |-> "Math",
     text |-> <<>>]

B_grid_long ==
    [layoutType |-> "grid-4", contentType |-> "longText", subject |-> "ELA",
     text |-> <<>>]

LogFiles ==
    { [student |-> "sam-k", blocks |-> <<B_grid_num_math>>, totals |-> <<5>>,
       converted3 |-> FALSE, errors |-> {}],
      [student |-> "sam-k", blocks |-> <<B_vert_long_ela, B_grid_num_math>>,
       totals |-> <<3>>, converted3 |-> FALSE, errors |-> {"TypeError"}],
      [student |-> "alex-1", blocks |-> <<B_vert_num>>, totals |-> <<30>>,
       converted3 |-> FALSE,
       errors |-> {"Undefined error", "Missing correct_answer"}],
      [student |-> "alex-1", blocks |-> <<B_nolayout, B_grid_long>>,
       totals |-> <<5, 5>>, converted3 |-> TRUE, errors |-> {}],
      [student |-> "taylor-10", blocks |-> <<B_vert_long_ela, B_vert_long_ela>>,
       totals |-> <<>>, converted3 |-> FALSE, errors |-> {"TypeError"}],
      [student |-> "jordan-7", blocks |-> <<B_grid_long>>, totals |-> <<5>>,
       converted3 |-> FALSE, errors |-> {}],
      [student |-> "morgan-3", blocks |-> <<B_grid_num_math>>, totals |-> <<5>>,
       converted3 |-> FALSE, errors |-> {"Undefined property access"}],
      [student |-> "jordan-7", blocks |-> <<>>, totals |-> <<>>,
       converted3 |-> FALSE, errors |-> {}],
      \* one block more than the export keeps issues
      [student |-> "taylor-10",
       blocks |-> [i \in 1..(ExportIssueCap + 1) |-> B_vert_num],
       totals |-> <<>>, converted3 |-> FALSE, errors |-> {}] }

\* the order of str on two names: code point by code point, a prefix first
NameLeq(a, b) ==
    \/ \E i \in 1..Len(a) :
           /\ i <= Len(b)
           /\ SubSeq(a, 1, i - 1) = SubSeq(b, 1, i - 1)
           /\ a[i] < b[i]
    \/ (Len(a) <= Len(b) /\ a = SubSeq(b, 1, Len(a)))

\* sorted(log_files): at most MaxFiles log files in the order of their paths,
\* that is of their student directories; the files of one directory come in
\* the order of their names, which their contents do not depend on
FileSeqs ==
    {f \in UNION {[1..n -> LogFiles] : n \in 0..MaxFiles} :
        \A i \in 1..Len(f) - 1 :
            NameLeq(NameChars(f[i].student), NameChars(f[i + 1].student))}

Scripts == {"analysis_script", "detailed_layout_analysis"}

(***************************************************************************)
(* Round2DetailedAnalyzer: log lines and JSON entries                      *)
(***************************************************************************)

\* JSON values by shape
\* W_Subject_colon: "Subject:"
W_Subject_colon == <<83, 117, 98, 106, 101, 99, 116, 58>>
\* W_areer: "areer"
W_areer == <<97, 114, 101, 101, 114>>
\* W_career: "career"
W_career == <<99, 97, 114, 101, 101, 114>>
\* W_Career_colon: "Career:"
W_Career_colon == <<67, 97, 114, 101, 101, 114, 58>>
\* X_career_coach: "Career: Coach"
X_career_coach == <<67, 97, 114, 101, 101, 114, 58, 32, 67, 111, 97, 99, 104>>
\* X_subject_ela: "Subject: ELA"
X_subject_ela == <<83, 117, 98, 106, 101, 99, 116, 58, 32, 69, 76, 65>>
\* X_subject_math: "Subject: MATH"
X_subject_math == <<83, 117, 98, 106, 101, 99, 116, 58, 32, 77, 65, 84, 72>>
\* regex classes \s, [a-z], \d and the separator class [:\s]
SpaceChars == {9, 10, 11, 12, 13, 32}
LowerChars == 97..122
DigitChars == 48..57
WordChars == {c \in 48..122 : IsWordChar(c)}
CareerSeparators == SpaceChars \cup {58}

\* the last position of the longest run of characters of cls that starts at
\* position i of s (i - 1 when s[i] is not in cls): a greedy cls*
RunEnd(s, i, cls) ==
    CHOOSE j \in (i - 1)..Len(s) :
        /\ \A k \in i..j : s[k] \in cls
        /\ (j = Len(s) \/ s[j + 1] \notin cls)

\* s[i:i+len(t)] == t
MatchesAt(s, i, t) ==
    /\ i >= 1
    /\ i + Len(t) - 1 <= Len(s)
    /\ \A j \in 1..Len(t) : s[i + j - 1] = t[j]

\* re.search(r'Subject:\s*(\w+)', line).group(1) under "if 'Subject:' in line",
\* NoField when nothing matches
SubjectMatch(line) ==
    LET WordStart(i) == RunEnd(line, i + Len(W_Subject_colon), SpaceChars) + 1
        Matches(i) ==
            /\ MatchesAt(line, i, W_Subject_colon)
            /\ RunEnd(line, WordStart(i), WordChars) >= WordStart(i)
        found == {i \in 1..Len(line) : Matches(i)}
    IN  IF found = {} THEN NoField
        ELSE LET i == CHOOSE x \in found : \A y \in found : x <= y
             IN  SubSeq(line, WordStart(i), RunEnd(line, WordStart(i), WordChars))

\* the end of "[A-Z][a-z]+" at position w of s, or 0 when it does not match
CapitalisedWordEnd(s, w) ==
    IF w <= Len(s) /\ IsUpperAZ(s[w]) /\ RunEnd(s, w + 1, LowerChars) >= w + 1
    THEN RunEnd(s, w + 1, LowerChars)
    ELSE 0

\* the end of "(?:\s+[A-Z][a-z]+)*" after a word that ends at position e
RECURSIVE MoreWordsEnd(_, _)
MoreWordsEnd(s, e) ==
    LET w == RunEnd(s, e + 1, SpaceChars) + 1
    IN  IF w > e + 1 /\ CapitalisedWordEnd(s, w) > 0
        THEN MoreWordsEnd(s, CapitalisedWordEnd(s, w))
        ELSE e

\* re.search(r'[Cc]areer[:\s]+([A-Z][a-z]+(?:\s+[A-Z][a-z]+)*)', line).group(1)
\* under "if 'Career:' in line or 'career' in line.lower()", NoField when
\* nothing matches
CareerMatch(line) ==
    LET WordStart(i) == RunEnd(line, i + 1 + Len(W_areer), CareerSeparators) + 1
        Matches(i) ==
            /\ i <= Len(line)
            /\ line[i] \in {67, 99}
            /\ MatchesAt(line, i + 1, W_areer)
            /\ WordStart(i) > i + 1 + Len(W_areer)
            /\ CapitalisedWordEnd(line, WordStart(i)) > 0
        found == {i \in 1..Len(line) : Matches(i)}
    IN  IF ~(Contains(line, W_Career_colon) \/ Contains(Lower(line), W_career))
           \/ found = {}
        THEN NoField
        ELSE LET i == CHOOSE x \in found : \A y \in found : x <= y
             IN  SubSeq(line, WordStart(i),
                        MoreWordsEnd(line, CapitalisedWordEnd(line, WordStart(i))))

\* the TLA+ string the model keeps for a captured name
StrOf(chars) == CHOOSE s \in {"Coach", "Chef", "ELA", "MATH"} : Chars(s) = chars

Absent == [tag |-> "absent"]
Scalar == [tag |-> "scalar"]
NonList == [tag |-> "other"]
JList(items) == [tag |-> "list", items |-> items]
JValue(v) == [tag |-> "value", v |-> v]
JitContent(practice, assessment) ==
    [tag |-> "dict", practice |-> practice, assessment |-> assessment]
Validation(error) == [tag |-> "dict", error |-> error]

Q_plain ==
    [isDict |-> TRUE, type |-> "multiple_choice", question |-> T_rhyme,
     visual |-> V_empty]
Q_fill ==
    [isDict |-> TRUE, type |-> "fill_blank", question |-> T_answer, visual |-> V_empty]
Q_whistle ==
    [isDict |-> TRUE, type |-> "counting", question |-> T_whistle, visual |-> V_tools]
Q_apples ==
    [isDict |-> TRUE, type |-> "multiple_choice", question |-> T_apples,
     visual |-> V_empty]

Q_balls ==
    [isDict |-> TRUE, type |-> "counting", question |-> T_balls, visual |-> V_balls]

\* parsed JSON lines
E_p5 ==
    [jitContent |-> JitContent(JList(<<Q_plain, Q_plain, Q_plain, Q_plain, Q_plain>>),
                               JValue(Q_fill)),
     validation |-> Absent]
E_p3 ==
    [jitContent |-> JitContent(JList(<<Q_whistle, NotADict, Q_apples>>), Absent),
     validation |-> Absent]
E_val ==
    [jitContent |-> JitContent(NonList, JValue(Q_balls)),
     validation |-> Validation("missing field")]
E_badjit == [jitContent |-> Scalar, validation |-> Absent]

\* a log line: what the patterns of analyze_log_file and check_line_patterns
\* find in it
PlainLine ==
    [text |-> <<>>, json |-> [tag |-> "none"],
     layout |-> NoField, generated |-> {}, answer_box |-> FALSE]

\* a line of plain text, kept as its characters for the marker patterns
TextLine(text) == [PlainLine EXCEPT !.text = text]
JsonLine(data) == [PlainLine EXCEPT !.json = [tag |-> "data", data |-> data]]
MalformedLine == [PlainLine EXCEPT !.json = [tag |-> "malformed"]]
LayoutLine(l, n) == [PlainLine EXCEPT !.layout = l, !.generated = {n}]

LogLines ==
    { TextLine(X_subject_ela), TextLine(X_subject_math), TextLine(X_career_coach),
      JsonLine(E_p5),
      JsonLine(E_p3),
      JsonLine(E_val), JsonLine(E_badjit), MalformedLine,
      LayoutLine("layoutGrid4", 3) }

\* statements in sequence: v is the state the first one leaves, F the rest
Then(v, F(_)) == CHOOSE r \in {F(a) : a \in {v}} : TRUE

\* a call that returns the analyzer it leaves and whether it raised
Returned(A) == [A |-> A, raised |-> FALSE]
Raised(A) == [A |-> A, raised |-> TRUE]

\* "for i, q in enumerate(practice): self.analyze_question(...)" from item i on
RECURSIVE AnalyzePractice(_, _, _, _, _, _, _)
AnalyzePractice(A, items, i, student, grade, subject, career) ==
    IF i > Len(items) THEN A
    ELSE Then(analyze_question(A, items[i], student, grade, subject, career,
                               PracticeId(i)),
              LAMBDA a : AnalyzePractice(a, items, i + 1, student, grade, subject,
                                         career))

\* the low_practice append moved into the loop over the questions
AnalyzePracticeListPerQuestion(A, practice, student, grade, subject, career) ==
    IF practice.tag # "list" THEN A
    ELSE
    LET n == Len(practice.items)
        RECURSIVE Each(_, _)
        Each(B, i) ==
            IF i > n THEN B
            ELSE Then(analyze_question(
                          IF n < ExpectedPractice
                          THEN AddIssue(B, "low_practice",
                                   [student |-> student, subject |-> subject,
                                    count |-> n])
                          ELSE B,
                          practice.items[i], student, grade, subject, career,
                          PracticeId(i)),
                      LAMBDA b : Each(b, i + 1))
    IN  Each([A EXCEPT !.stats[student]["practice_count"] = n], 1)

\* the practice branch of analyze_json_entry (lines 102-114)
AnalyzePracticeList(A, practice, student, grade, subject, career) ==
    IF practice.tag # "list" THEN A
    ELSE
    LET n == Len(practice.items)
        A1 == [A EXCEPT !.stats[student]["practice_count"] = n]
        A2 == IF n < ExpectedPractice
              THEN AddIssue(A1, "low_practice",
                       [student |-> student, subject |-> subject, count |-> n])
              ELSE A1
    IN  Then(A2, LAMBDA a : AnalyzePractice(a, practice.items, 1, student, grade,
                                            subject, career))

\* analyze_json_entry(data, student, grade, subject, career); a jitContent or
\* validation that is a number raises TypeError at its "in" test
analyze_json_entry(A, data, student, grade, subject, career) ==
    LET jit == data.jitContent
        val == data.validation
        Assessment(A1) ==
            IF jit.tag = "dict" /\ jit.assessment.tag = "value"
            THEN analyze_question(A1, jit.assessment.v, student, grade, subject,
                                  career, AssessmentId)
            ELSE A1
        ValidationError(A2) ==
            IF val.tag = "scalar" THEN Raised(A2)
            ELSE IF val.tag = "dict"
            THEN Returned(AddIssue(A2, "validation",
                     [student |-> student, subject |-> subject, error |-> val.error]))
            ELSE Returned(A2)
    IN  IF jit.tag = "scalar" THEN Raised(A)
        ELSE Then(IF jit.tag = "dict"
                  THEN AnalyzePracticeList(A, jit.practice, student, grade, subject,
                                           career)
                  ELSE A,
                  LAMBDA a1 : Then(Assessment(a1), LAMBDA a2 : ValidationError(a2)))

\* check_line_patterns(line, student, grade, subject)
check_line_patterns(A, line, student) ==
    LET A1 == IF line.layout # NoField
              THEN [A EXCEPT !.stats[student][line.layout] = @ + 1]
              ELSE A
        A2 == IF \E n \in line.generated : n # ExpectedPractice
              THEN [A1 EXCEPT !.stats[student]["practice_mismatch"] = @ + 1]
              ELSE A1
    IN  IF line.answer_box
        THEN [A2 EXCEPT !.stats[student]["answer_box_issues"] = @ + 1]
        ELSE A2

\* a scan in which the first marker of a kind stays in scope for the whole
\* file
ScanLineOpFirstWins(A, subject, career, line, student, grade) ==
    LET subject1 == IF subject = PyNone /\ SubjectMatch(line.text) # NoField
                    THEN StrOf(SubjectMatch(line.text))
                    ELSE subject
        career1 == IF career = PyNone /\ CareerMatch(line.text) # NoField
                   THEN StrOf(CareerMatch(line.text))
                   ELSE career
    IN  Then(IF line.json.tag = "data"
             THEN analyze_json_entry(A, line.json.data, student, grade, subject1,
                                     career1)
             ELSE Returned(A),
             LAMBDA entry :
                 [A |-> IF entry.raised THEN entry.A
                        ELSE check_line_patterns(entry.A, line, student),
                  subject |-> subject1,
                  career |-> career1,
                  raised |-> entry.raised])

\* analyze_log_file: the body of "for line in lines" on one line, from the
\* context (current_subject, current_career) the earlier lines left
ScanLineOp(A, subject, career, line, student, grade) ==
    LET subject1 == IF SubjectMatch(line.text) # NoField
                    THEN StrOf(SubjectMatch(line.text))
                    ELSE subject
        career1 == IF CareerMatch(line.text) # NoField
                   THEN StrOf(CareerMatch(line.text))
                   ELSE career
    IN  Then(IF line.json.tag = "data"
             THEN analyze_json_entry(A, line.json.data, student, grade, subject1,
                                     career1)
             ELSE Returned(A),
             LAMBDA entry :
                 [A |-> IF entry.raised THEN entry.A
                        ELSE check_line_patterns(entry.A, line, student),
                  subject |-> subject1,
                  career |-> career1,
                  raised |-> entry.raised])

\* analyze_log_file(file_path, student, grade) on the lines of one file: the
\* loop ends at the first line that raises (the except clause of line 92)
RECURSIVE ScanLines(_, _, _, _, _, _)
ScanLines(A, subject, career, lines, student, grade) ==
    IF lines = <<>> THEN A
    ELSE Then(ScanLineOp(A, subject, career, Head(lines), student, grade),
              LAMBDA r : IF r.raised THEN r.A
                         ELSE ScanLines(r.A, r.subject, r.career, Tail(lines),
                                        student, grade))

analyze_log_file_r2(A, file) ==
    ScanLines(A, PyNone, PyNone, file.lines, file.student, file.grade)

\* analyze_all_students on a sequence of log files, in the order given
RECURSIVE AnalyzeFiles(_, _)
AnalyzeFiles(A, logs) ==
    IF logs = <<>> THEN A
    ELSE Then(analyze_log_file_r2(A, Head(logs)),
              LAMBDA a : AnalyzeFiles(a, Tail(logs)))

(***************************************************************************)
(* Round2Analyzer: text logs and JSON logs                                 *)
(***************************************************************************)

\* the career names check_career_context looks for
r2_career_words == {W_coach, W_chef, W_doctor, W_teacher}

\* the layout names of check_layout_distribution, with the stats key of each
R2Layouts ==
    { [name |-> <<86, 101, 114, 116, 105, 99, 97, 108>>, key |-> "layout_Vertical"],
      [name |-> <<71, 114, 105, 100, 50>>, key |-> "layout_Grid2"],
      [name |-> <<71, 114, 105, 100, 51>>, key |-> "layout_Grid3"],
      [name |-> <<71, 114, 105, 100, 52>>, key |-> "layout_Grid4"] }

\* A text log is the sequence of the lines of its content; no pattern the
\* checks apply to the whole content can match across a line break.
AnyLine(content, t) == \E i \in 1..Len(content) : Contains(content[i], t)

AnyLineLower(content, t) == \E i \in 1..Len(content) : Contains(Lower(content[i]), t)

\* check_career_context: the test of one line (lines 173-177)
CareerContextLine(line) ==
    /\ Contains(Lower(line), W_converting)
    /\ Contains(Lower(line), W_question)
    /\ Contains(Lower(line), W_how_many)
    /\ ~AnyIn(r2_career_words, Lower(line))

\* Round2Analyzer.check_career_context(content, student, subject)
check_career_context(R, content, student) ==
    LET flagged == {i \in 1..Len(content) : CareerContextLine(content[i])}
    IN  IF Contains(Lower(NameChars(student)), W_k) THEN R
        ELSE [R EXCEPT !.stats[student]["missing_career"] = @ + Cardinality(flagged)]

\* re.findall(r'[\u263a-\U0001f645]+', s): the maximal runs, in order
RECURSIVE EmojiRuns(_, _)
EmojiRuns(s, i) ==
    IF i > Len(s) THEN <<>>
    ELSE IF s[i] \in R2EmojiLo..R2EmojiHi
    THEN <<SubSeq(s, i, RunEnd(s, i, R2EmojiLo..R2EmojiHi))>>
         \o EmojiRuns(s, RunEnd(s, i, R2EmojiLo..R2EmojiHi) + 1)
    ELSE EmojiRuns(s, i + 1)

\* Round2Analyzer.check_emoji_issues(content, student, subject)
check_emoji_issues(R, content, student, subject) ==
    LET R1 == IF /\ AnyLine(content, <<ToolGlyph, ToolGlyph, ToolGlyph>>)
                 /\ AnyLineLower(content, W_coach)
              THEN AddIssue(R, "wrong_emoji", [student |-> student, subject |-> subject])
              ELSE R
        repeated == {i \in 2..Len(content) :
                        /\ Contains(content[i], W_visual_colon)
                        /\ EmojiRuns(content[i - 1], 1) # <<>>
                        /\ EmojiRuns(content[i - 1], 1) = EmojiRuns(content[i], 1)}
    IN  [R1 EXCEPT !.stats[student]["emoji_duplication"] = @ + Cardinality(repeated)]

\* int(digits)
RECURSIVE IntOf(_)
IntOf(digits) ==
    IF digits = <<>> THEN 0
    ELSE 10 * IntOf(SubSeq(digits, 1, Len(digits) - 1)) + (digits[Len(digits)] - 48)

\* [int(m) for m in re.findall(r'practice.*?(\d+)', line)] from position i on
RECURSIVE PracticeMatches(_, _)
PracticeMatches(line, i) ==
    LET starts == {p \in i..Len(line) :
                      /\ MatchesAt(line, p, W_practice)
                      /\ \E d \in (p + Len(W_practice))..Len(line) :
                             line[d] \in DigitChars}
    IN  IF starts = {} THEN <<>>
        ELSE LET p == CHOOSE x \in starts : \A y \in starts : x <= y
                 digits == {d \in (p + Len(W_practice))..Len(line) :
                                line[d] \in DigitChars}
                 d == CHOOSE x \in digits : \A y \in digits : x <= y
             IN  <<IntOf(SubSeq(line, d, RunEnd(line, d, DigitChars)))>>
                 \o PracticeMatches(line, RunEnd(line, d, DigitChars) + 1)

\* the matches of check_question_quality that are below 5, from line i on
RECURSIVE LowPracticeMatches(_, _)
LowPracticeMatches(content, i) ==
    IF i > Len(content) THEN 0
    ELSE Len(SelectSeq(PracticeMatches(Lower(content[i]), 1),
                       LAMBDA n : n < ExpectedPractice))
         + LowPracticeMatches(content, i + 1)

\* Round2Analyzer.check_question_quality(content, student, subject)
check_question_quality(R, content, student) ==
    LET R1 == IF /\ \E i \in 1..Len(content) : HasCapsWord(content[i], MinCapsRun)
                 /\ ~AnyLine(content, W_LEARN)
              THEN [R EXCEPT !.stats[student]["uppercase_issues"] = @ + 1]
              ELSE R
    IN  IF AnyLine(content, W_slice) THEN R1
        ELSE [R1 EXCEPT !.stats[student]["low_practice_count"] =
                 @ + LowPracticeMatches(content, 1)]

\* the number of times t occurs in s (re.findall of a literal)
Occurrences(s, t) == Cardinality({i \in 1..Len(s) : MatchesAt(s, i, t)})

RECURSIVE SumOccurrences(_, _, _)
SumOccurrences(content, t, i) ==
    IF i > Len(content) THEN 0
    ELSE Occurrences(content[i], t) + SumOccurrences(content, t, i + 1)

\* Round2Analyzer.check_layout_distribution(content, student, subject)
check_layout_distribution(R, content, student) ==
    [R EXCEPT !.stats[student] =
        [k \in DOMAIN @ |->
            IF \E l \in R2Layouts : l.key = k
            THEN @[k] + SumOccurrences(content,
                            W_layout \o (CHOOSE l \in R2Layouts : l.key = k).name, 1)
            ELSE @[k]]]

\* Round2Analyzer.extract_subject_from_filename(filename)
extract_subject_from_filename(filename) ==
    LET filename_lower == Lower(filename)
    IN  IF Contains(filename_lower, <<109, 97, 116, 104>>) THEN "MATH"
        ELSE IF Contains(filename_lower, <<101, 108, 97>>)
                \/ Contains(filename_lower, <<101, 110, 103, 108, 105, 115, 104>>)
        THEN "ELA"
        ELSE IF Contains(filename_lower, <<115, 99, 105, 101, 110, 99, 101>>)
        THEN "SCIENCE"
        ELSE IF Contains(filename_lower, <<115, 111, 99, 105, 97, 108>>)
        THEN "SOCIAL_STUDIES"
        ELSE "UNKNOWN"

\* Round2Analyzer.analyze_text_log(file_path, student); a file that cannot be
\* read leaves the analyzer as it was (the except clause of line 90)
analyze_text_log(R, log, student) ==
    IF ~log.readable THEN R
    ELSE LET subject == extract_subject_from_filename(log.name)
             R1 == check_career_context(R, log.content, student)
             R2 == check_emoji_issues(R1, log.content, student, subject)
             R3 == check_question_quality(R2, log.content, student)
         IN  check_layout_distribution(R3, log.content, student)

\* a parsed line of a JSON log of Round2Analyzer: a dict with the keys the
\* analyzer reads, or a value that is no container (a number)
R2Entry(practice, assessment, validation) ==
    [tag |-> "dict", practice |-> practice, assessment |-> assessment,
     validation |-> validation, jitContent |-> Absent]

\* a parsed line that holds its questions under the key jitContent
R2JitEntry(jit) ==
    [tag |-> "dict", practice |-> Absent, assessment |-> Absent,
     validation |-> Absent, jitContent |-> jit]

\* str(x) of a list item or an assessment value
StrOfItem(q) == IF q.isDict THEN StrOfQuestion(q) ELSE K_None

RECURSIVE JoinItems(_)
JoinItems(items) ==
    IF items = <<>> THEN <<>>
    ELSE IF Len(items) = 1 THEN StrOfItem(items[1])
    ELSE StrOfItem(items[1]) \o K_comma \o JoinItems(Tail(items))

\* the repr of the dict under jitContent, without its braces
StrOfJit(jit) ==
    LET practice ==
            IF jit.practice.tag = "absent" THEN <<>>
            ELSE K_practice_key
                 \o (IF jit.practice.tag = "list"
                     THEN <<91>> \o JoinItems(jit.practice.items) \o <<93>>
                     ELSE K_None)
        assessment ==
            IF jit.assessment.tag = "absent" THEN <<>>
            ELSE K_assessment_key \o StrOfItem(jit.assessment.v)
    IN  practice
        \o (IF practice # <<>> /\ assessment # <<>> THEN K_comma ELSE <<>>)
        \o assessment

\* str(data): the repr of the dict, key by key
StrOfEntry(data) ==
    LET jit ==
            IF data.jitContent.tag = "absent" THEN <<>>
            ELSE <<K_jit_key \o StrOfJit(data.jitContent) \o <<125>>>>
        practice ==
            IF data.practice.tag = "absent" THEN <<>>
            ELSE <<K_practice_key
                   \o (IF data.practice.tag = "list"
                       THEN <<91>> \o JoinItems(data.practice.items) \o <<93>>
                       ELSE K_None)>>
        assessment ==
            IF data.assessment.tag = "absent" THEN <<>>
            ELSE <<K_assessment_key \o StrOfItem(data.assessment.v)>>
        validation ==
            IF data.validation.tag = "absent" THEN <<>>
            ELSE <<K_validation_key \o Chars(data.validation.error) \o K_close>>
        parts == jit \o practice \o assessment \o validation
        RECURSIVE Join(_)
        Join(ps) ==
            IF ps = <<>> THEN <<>>
            ELSE IF Len(ps) = 1 THEN ps[1]
            ELSE ps[1] \o K_comma \o Join(Tail(ps))
    IN  IF data.tag = "scalar" THEN <<53>>
        ELSE <<123>> \o Join(parts) \o <<125>>

\* "for i, q in enumerate(practice): self.check_question(...)" from item i on
RECURSIVE CheckPractice(_, _, _, _, _)
CheckPractice(R, items, i, student, subject) ==
    IF i > Len(items) THEN R
    ELSE Then(check_question(R, items[i], student, subject, PracticeId(i)),
              LAMBDA r : CheckPractice(r, items, i + 1, student, subject))

\* Round2Analyzer.analyze_entry(data, student, subject); "'practice' in data"
\* raises TypeError when data is a number
analyze_entry(R, data, student, subject) ==
    LET text == Lower(StrOfEntry(data))
        R1 == IF Contains(text, W_validation) /\ Contains(text, W_error)
              THEN AddIssue(R, "validation",
                       [student |-> student, subject |-> subject, data |-> data])
              ELSE R
        Practice(A) ==
            IF data.practice.tag = "list"
            THEN CheckPractice(
                     [A EXCEPT !.stats[student]["practice_count"] =
                                   Len(data.practice.items)],
                     data.practice.items, 1, student, subject)
            ELSE A
        Assessment(A) ==
            IF data.assessment.tag = "value"
            THEN check_question(A, data.assessment.v, student, subject, AssessmentId)
            ELSE A
    IN  IF data.tag = "scalar" THEN Raised(R1)
        ELSE Then(R1, LAMBDA a : Then(Practice(a),
                                      LAMBDA b : Returned(Assessment(b))))

\* analyze_json_log: "for line in lines" from the first line of lines on; a
\* line json.loads rejects is passed over, a line that raises ends the loop
RECURSIVE AnalyzeEntries(_, _, _, _)
AnalyzeEntries(R, lines, student, subject) ==
    IF lines = <<>> THEN R
    ELSE IF Head(lines).tag # "data"
    THEN AnalyzeEntries(R, Tail(lines), student, subject)
    ELSE Then(analyze_entry(R, Head(lines).data, student, subject),
              LAMBDA r : IF r.raised THEN r.A
                         ELSE AnalyzeEntries(r.A, Tail(lines), student, subject))

\* Round2Analyzer.analyze_json_log(file_path, student); a file that cannot be
\* read leaves the analyzer as it was (the except clause of line 73)
analyze_json_log(R, log, student) ==
    IF ~log.readable THEN R
    ELSE AnalyzeEntries(R, log.lines, student,
                        extract_subject_from_filename(log.name))

(***************************************************************************)
(* The printed reports of Round 2                                          *)
(***************************************************************************)

\* what a report prints for one issue kind: the count, the findings shown,
\* and the number in the "... and N more" line (0 when no such line is
\* printed)
KindSection(tier, kind, found, with_more) ==
    [tier |-> tier, kind |-> kind, count |-> Len(found),
     shown |-> Prefix(found, PreviewLen),
     more |-> IF with_more /\ Len(found) > PreviewLen
              THEN Len(found) - PreviewLen ELSE 0]

\* the sections of the kinds of one tier that hold findings, in list order
RECURSIVE TierSections(_, _, _, _)
TierSections(tier, kinds, found, with_more) ==
    IF kinds = <<>> THEN <<>>
    ELSE (IF found[Head(kinds)] # <<>>
          THEN <<KindSection(tier, Head(kinds), found[Head(kinds)], with_more)>>
          ELSE <<>>)
         \o TierSections(tier, Tail(kinds), found, with_more)

RECURSIVE TierTotal(_, _)
TierTotal(kinds, found) ==
    IF kinds = <<>> THEN 0
    ELSE Len(found[Head(kinds)]) + TierTotal(Tail(kinds), found)

\* the lists "critical" and "warnings" of Round2Analyzer.print_summary
r2_critical ==
    <<"validation", "subject_contamination", "wrong_emoji", "emoji_duplication">>

r2_warnings == <<"fill_blank_format", "missing_career">>

\* Round2Analyzer.print_summary: the issue sections and the two totals (the
\* statistics block and the fixed closing lines are not kept)
print_summary(R) ==
    [sections |-> TierSections("critical", r2_critical, R.issues, TRUE)
                  \o TierSections("warning", r2_warnings, R.issues, FALSE),
     totals |-> [critical |-> TierTotal(r2_critical, R.issues),
                 warning |-> TierTotal(r2_warnings, R.issues)]]

\* issue_categories of Round2DetailedAnalyzer.print_detailed_summary
issue_categories ==
    << [tier |-> "critical",
        kinds |-> <<"subject_contamination", "validation", "emoji_duplication">>],
       [tier |-> "moderate",
        kinds |-> <<"wrong_emoji", "fill_blank_format", "uppercase">>],
       [tier |-> "minor", kinds |-> <<"missing_career", "low_practice">>] >>

\* the lists behind critical_count and moderate_count (lines 308-309)
critical_kinds == <<"subject_contamination", "validation", "emoji_duplication">>

moderate_kinds == <<"wrong_emoji", "fill_blank_format", "uppercase">>

RECURSIVE CategorySections(_, _)
CategorySections(categories, found) ==
    IF categories = <<>> THEN <<>>
    ELSE TierSections(Head(categories).tier, Head(categories).kinds, found, TRUE)
         \o CategorySections(Tail(categories), found)

\* sum(len(issues) for issues in self.issues.values())
RECURSIVE TotalIssues(_, _)
TotalIssues(found, kinds) ==
    IF kinds = {} THEN 0
    ELSE LET k == CHOOSE x \in kinds : TRUE
         IN  Len(found[k]) + TotalIssues(found, kinds \ {k})

\* Round2DetailedAnalyzer.print_detailed_summary: the issue sections and the
\* totals of the final assessment (statistics and samples are not kept; with
\* no issue at all the totals are replaced by one line)
print_detailed_summary(A) ==
    LET total_issues == TotalIssues(A.issues, DOMAIN A.issues)
        critical_count == TierTotal(critical_kinds, A.issues)
        moderate_count == TierTotal(moderate_kinds, A.issues)
    IN  [sections |-> CategorySections(issue_categories, A.issues),
         totals |-> [total |-> total_issues, critical |-> critical_count,
                     moderate |-> moderate_count,
                     minor |-> total_issues - critical_count - moderate_count]]

(***************************************************************************)
(* Classification of one question record by each analyzer                  *)
(***************************************************************************)

classifyVars ==
    <<question, cstudent, cgrade, csubject, ccareer, cq_id, calledD, calledB>>

detailedVars == <<issues, stats, question_samples>>

r2Vars == <<r2_issues, r2_stats, r2_pc, r2_sidx, r2_logs, r2_printed>>

round1Vars ==
    <<script, files, all_results, summary, grade_patterns, fold_i, report, export, pc>>

runVars == <<rpc, sidx, current_subject, current_career, processed, printed>>

vars == <<classifyVars, detailedVars, r2Vars, round1Vars, runVars>>

FreshAnalyzers ==
    /\ issues = NewAnalyzer.issues
    /\ stats = NewAnalyzer.stats
    /\ question_samples = NewAnalyzer.question_samples
    /\ r2_issues = R2NewAnalyzer.issues
    /\ r2_stats = R2NewAnalyzer.stats

R2Idle ==
    /\ r2_pc = "idle"
    /\ r2_sidx = 0
    /\ r2_logs = <<>>
    /\ r2_printed = <<>>

Round1Idle ==
    /\ script = "none"
    /\ files = <<>>
    /\ all_results = <<>>
    /\ summary = EmptySummary
    /\ grade_patterns = EmptyGradePatterns
    /\ fold_i = 0
    /\ report = <<>>
    /\ export = <<>>
    /\ pc = "idle"

RunIdle ==
    /\ rpc = "idle"
    /\ sidx = 0
    /\ current_subject = PyNone
    /\ current_career = PyNone
    /\ processed = <<>>
    /\ printed = <<>>

ClassifyIdle ==
    /\ question = NotADict
    /\ cstudent = Students[1].dir
    /\ cgrade = Students[1].grade
    /\ csubject = PyNone
    /\ ccareer = PyNone
    /\ cq_id = AssessmentId
    /\ calledD = FALSE
    /\ calledB = FALSE

InitClassify ==
    /\ FreshAnalyzers
    /\ question \in Questions
    /\ \E i \in 1..Len(Students) :
           cstudent = Students[i].dir /\ cgrade = Students[i].grade
    /\ csubject \in Subjects
    /\ ccareer \in Careers
    /\ cq_id \in {PracticeId(1), AssessmentId}
    /\ calledD = FALSE
    /\ calledB = FALSE
    /\ Round1Idle
    /\ RunIdle
    /\ R2Idle

\* Round2DetailedAnalyzer.analyze_question(question, student, grade, subject,
\* career, q_id) on a fresh analyzer
CallAnalyzeQuestion ==
    /\ ~calledD
    /\ LET A == analyze_question([issues |-> issues, stats |-> stats,
                                  question_samples |-> question_samples],
                                 question, cstudent, cgrade, csubject, ccareer, cq_id)
       IN  /\ issues' = A.issues
           /\ stats' = A.stats
           /\ question_samples' = A.question_samples
    /\ calledD' = TRUE
    /\ UNCHANGED <<question, cstudent, cgrade, csubject, ccareer, cq_id, calledB>>
    /\ UNCHANGED <<r2Vars, round1Vars, runVars>>

\* Round2Analyzer.check_question(question, student, subject, q_type) on a fresh
\* analyzer; its subject comes from extract_subject_from_filename, never None
CallCheckQuestion ==
    /\ ~calledB
    /\ csubject # PyNone
    /\ LET R == check_question([issues |-> r2_issues, stats |-> r2_stats],
                               question, cstudent, csubject, cq_id)
       IN  /\ r2_issues' = R.issues
           /\ r2_stats' = R.stats
    /\ calledB' = TRUE
    /\ UNCHANGED <<r2_pc, r2_sidx, r2_logs, r2_printed>>
    /\ UNCHANGED <<question, cstudent, cgrade, csubject, ccareer, cq_id, calledD>>
    /\ UNCHANGED <<detailedVars, round1Vars, runVars>>

NextClassify == CallAnalyzeQuestion \/ CallCheckQuestion

SpecClassify == InitClassify /\ [][NextClassify]_vars

(***************************************************************************)
(* Round 1: main() of analysis_script.py and detailed_layout_analysis.py    *)
(***************************************************************************)

InitRound1 ==
    /\ script \in Scripts
    /\ files \in FileSeqs
    /\ all_results = <<>>
    /\ summary = EmptySummary
    /\ grade_patterns = EmptyGradePatterns
    /\ fold_i = 0
    /\ report = <<>>
    /\ export = <<>>
    /\ pc = "start"
    /\ ClassifyIdle
    /\ FreshAnalyzers
    /\ RunIdle
    /\ R2Idle

\* main: "if not log_files: print(...); return"
MainStart ==
    /\ pc = "start"
    /\ pc' = IF files = <<>> THEN "done" ELSE "analyze"
    /\ UNCHANGED <<script, files, all_results, summary, grade_patterns, fold_i,
                   report, export>>
    /\ UNCHANGED <<classifyVars, detailedVars, r2Vars, runVars>>

\* analysis_script.main, lines 154-157: analyze the next file
AnalyzeFile ==
    /\ script = "analysis_script"
    /\ pc = "analyze"
    /\ all_results' = Append(all_results, analyze_log_file(files[Len(all_results) + 1]))
    /\ pc' = IF Len(all_results) + 1 = Len(files) THEN "summarize" ELSE "analyze"
    /\ UNCHANGED <<script, files, summary, grade_patterns, fold_i, report, export>>
    /\ UNCHANGED <<classifyVars, detailedVars, r2Vars, runVars>>

\* analysis_script.analyze_log_file, lines 14-15: open() or read() raises
\* (the file cannot be opened or is not UTF-8); nothing catches the
\* exception, main ends with a traceback
ReadFails ==
    /\ script = "analysis_script"
    /\ pc = "analyze"
    /\ pc' = "crashed"
    /\ UNCHANGED <<script, files, all_results, summary, grade_patterns, fold_i,
                   report, export>>
    /\ UNCHANGED <<classifyVars, detailedVars, r2Vars, runVars>>

\* summarize_results: one iteration of its loop
SummarizeNext ==
    /\ script = "analysis_script"
    /\ pc = "summarize"
    /\ summary' = SummarizeStep(summary, all_results[fold_i + 1])
    /\ fold_i' = fold_i + 1
    /\ pc' = IF fold_i + 1 = Len(all_results) THEN "report" ELSE "summarize"
    /\ UNCHANGED <<script, files, all_results, grade_patterns, report, export>>
    /\ UNCHANGED <<classifyVars, detailedVars, r2Vars, runVars>>

\* analysis_script.main, lines 173-204: the printed summary
PrintLayoutReport ==
    /\ script = "analysis_script"
    /\ pc = "report"
    /\ report' = LayoutReport(summary)
    /\ pc' = "export"
    /\ UNCHANGED <<script, files, all_results, summary, grade_patterns, fold_i, export>>
    /\ UNCHANGED <<classifyVars, detailedVars, r2Vars, runVars>>

\* analysis_script.main, lines 207-231: json.dump(json_summary, f)
SaveResults ==
    /\ script = "analysis_script"
    /\ pc = "export"
    /\ export' = JsonSummary(summary, all_results)
    /\ pc' = "done"
    /\ UNCHANGED <<script, files, all_results, summary, grade_patterns, fold_i, report>>
    /\ UNCHANGED <<classifyVars, detailedVars, r2Vars, runVars>>

\* detailed_layout_analysis.main, lines 146-148
AnalyzeContext ==
    /\ script = "detailed_layout_analysis"
    /\ pc = "analyze"
    /\ all_results' =
           Append(all_results,
                  analyze_layout_patterns_by_context(files[Len(all_results) + 1]))
    /\ pc' = IF Len(all_results) + 1 = Len(files) THEN "summarize" ELSE "analyze"
    /\ UNCHANGED <<script, files, summary, grade_patterns, fold_i, report, export>>
    /\ UNCHANGED <<classifyVars, detailedVars, r2Vars, runVars>>

\* analyze_layout_patterns_by_context, lines 14-15: open() or read() raises;
\* nothing catches the exception, main ends with a traceback
ReadContextFails ==
    /\ script = "detailed_layout_analysis"
    /\ pc = "analyze"
    /\ pc' = "crashed"
    /\ UNCHANGED <<script, files, all_results, summary, grade_patterns, fold_i,
                   report, export>>
    /\ UNCHANGED <<classifyVars, detailedVars, r2Vars, runVars>>

\* analyze_grade_patterns: one iteration of its loop
GradeNext ==
    /\ script = "detailed_layout_analysis"
    /\ pc = "summarize"
    /\ grade_patterns' = GradeStep(grade_patterns, all_results[fold_i + 1])
    /\ fold_i' = fold_i + 1
    /\ pc' = IF fold_i + 1 = Len(all_results) THEN "report" ELSE "summarize"
    /\ UNCHANGED <<script, files, all_results, summary, report, export>>
    /\ UNCHANGED <<classifyVars, detailedVars, r2Vars, runVars>>

\* detailed_layout_analysis.main, lines 157-173
PrintBandReport ==
    /\ script = "detailed_layout_analysis"
    /\ pc = "report"
    /\ report' = BandReport(grade_patterns)
    /\ pc' = "export"
    /\ UNCHANGED <<script, files, all_results, summary, grade_patterns, fold_i, export>>
    /\ UNCHANGED <<classifyVars, detailedVars, r2Vars, runVars>>

\* analysis_script.main, line 208: open('analysis_results.json', 'w') raises
\* (the directory cannot be written); nothing catches the exception
SaveResultsFails ==
    /\ script = "analysis_script"
    /\ pc = "export"
    /\ pc' = "export_failed"
    /\ UNCHANGED <<script, files, all_results, summary, grade_patterns, fold_i,
                   report, export>>
    /\ UNCHANGED <<classifyVars, detailedVars, r2Vars, runVars>>

\* detailed_layout_analysis.main, line 213: open(..., 'w') raises
SaveAnalysisFails ==
    /\ script = "detailed_layout_analysis"
    /\ pc = "export"
    /\ pc' = "export_failed"
    /\ UNCHANGED <<script, files, all_results, summary, grade_patterns, fold_i,
                   report, export>>
    /\ UNCHANGED <<classifyVars, detailedVars, r2Vars, runVars>>

\* detailed_layout_analysis.main, lines 212-232
SaveAnalysis ==
    /\ script = "detailed_layout_analysis"
    /\ pc = "export"
    /\ export' = AnalysisData(grade_patterns, all_results)
    /\ pc' = "done"
    /\ UNCHANGED <<script, files, all_results, summary, grade_patterns, fold_i, report>>
    /\ UNCHANGED <<classifyVars, detailedVars, r2Vars, runVars>>

NextRound1 ==
    \/ MainStart
    \/ AnalyzeFile
    \/ ReadFails
    \/ SummarizeNext
    \/ PrintLayoutReport
    \/ SaveResults
    \/ SaveResultsFails
    \/ AnalyzeContext
    \/ ReadContextFails
    \/ GradeNext
    \/ PrintBandReport
    \/ SaveAnalysis
    \/ SaveAnalysisFails

\* the exit status of "python3 <script>": 1 after an uncaught exception, 0
\* when main returns
ExitStatus == IF pc \in {"crashed", "export_failed"} THEN 1 ELSE 0

\* the process of the script has ended
HasExited == pc \in {"done", "crashed", "export_failed"}

SpecRound1 == InitRound1 /\ [][NextRound1]_vars

(***************************************************************************)
(* Round 2: Round2DetailedAnalyzer.analyze_all_students                    *)
(***************************************************************************)

\* lines of the log files opened so far in the run
RECURSIVE LinesRead(_)
LinesRead(logs) ==
    IF logs = <<>> THEN 0
    ELSE Len(Head(logs).lines) + Len(Head(logs).skipped) + LinesRead(Tail(logs))

InitRun ==
    /\ FreshAnalyzers
    /\ rpc = "students"
    /\ sidx = 1
    /\ current_subject = PyNone
    /\ current_career = PyNone
    /\ processed = <<>>
    /\ printed = <<>>
    /\ ClassifyIdle
    /\ Round1Idle
    /\ R2Idle

\* analyze_student: the directory has no (more) log files, the loop of
\* analyze_all_students moves to the next student
NextStudent ==
    /\ rpc = "students"
    /\ sidx <= Len(Students)
    /\ sidx' = sidx + 1
    /\ UNCHANGED <<rpc, current_subject, current_career, processed, printed>>
    /\ UNCHANGED <<classifyVars, detailedVars, r2Vars, round1Vars>>

\* analyze_log_file: the file is read and split; the context starts as None
OpenLog ==
    /\ rpc = "students"
    /\ sidx <= Len(Students)
    /\ LinesRead(processed) < MaxLines
    /\ processed' = Append(processed,
           [student |-> Students[sidx].dir, grade |-> Students[sidx].grade,
            lines |-> <<>>, skipped |-> <<>>])
    /\ current_subject' = PyNone
    /\ current_career' = PyNone
    /\ rpc' = "scanning"
    /\ UNCHANGED <<sidx, printed>>
    /\ UNCHANGED <<classifyVars, detailedVars, r2Vars, round1Vars>>

\* analyze_log_file: one pass of "for line in lines"; a line that raises
\* leaves the loop for the except clause of line 92
ScanLine ==
    /\ rpc = "scanning"
    /\ LinesRead(processed) < MaxLines
    /\ \E line \in LogLines :
         \E r \in {ScanLineOp([issues |-> issues, stats |-> stats,
                               question_samples |-> question_samples],
                              current_subject, current_career, line,
                              processed[Len(processed)].student,
                              processed[Len(processed)].grade)} :
           LET n == Len(processed)
           IN  /\ issues' = r.A.issues
               /\ stats' = r.A.stats
               /\ question_samples' = r.A.question_samples
               /\ current_subject' = r.subject
               /\ current_career' = r.career
               /\ processed' = [processed EXCEPT ![n].lines = Append(@, line)]
               /\ rpc' = IF r.raised THEN "raised" ELSE "scanning"
    /\ UNCHANGED <<sidx, printed>>
    /\ UNCHANGED <<classifyVars, r2Vars, round1Vars>>

\* analyze_log_file: a line of the file that follows the one that raised; the
\* loop is over, the line is never looked at
SkipLine ==
    /\ rpc = "raised"
    /\ LinesRead(processed) < MaxLines
    /\ \E line \in LogLines :
           processed' = [processed EXCEPT ![Len(processed)].skipped = Append(@, line)]
    /\ UNCHANGED <<rpc, sidx, current_subject, current_career, printed>>
    /\ UNCHANGED <<classifyVars, detailedVars, r2Vars, round1Vars>>

\* analyze_log_file returns: the lines are exhausted (split yields at least
\* one line), or the except clause has printed the error
CloseLog ==
    /\ rpc \in {"scanning", "raised"}
    /\ Len(processed[Len(processed)].lines) >= 1
    /\ rpc' = "students"
    /\ UNCHANGED <<sidx, current_subject, current_career, processed, printed>>
    /\ UNCHANGED <<classifyVars, detailedVars, r2Vars, round1Vars>>

\* analyze_all_students: every student is done, print_detailed_summary runs
PrintDetailedSummary ==
    /\ rpc = "students"
    /\ sidx = Len(Students) + 1
    /\ printed' = print_detailed_summary([issues |-> issues, stats |-> stats,
                                          question_samples |-> question_samples])
    /\ rpc' = "done"
    /\ UNCHANGED <<sidx, current_subject, current_career, processed>>
    /\ UNCHANGED <<classifyVars, detailedVars, r2Vars, round1Vars>>

NextRun ==
    \/ NextStudent
    \/ OpenLog
    \/ ScanLine
    \/ SkipLine
    \/ CloseLog
    \/ PrintDetailedSummary

SpecRun == InitRun /\ [][NextRun]_vars

(***************************************************************************)
(* Round 2: Round2Analyzer.analyze_all_students                            *)
(***************************************************************************)

\* lines of text logs
\* X_conv_apples: "Converting question: How many apples?"
X_conv_apples ==
    <<67, 111, 110, 118, 101, 114, 116, 105, 110, 103, 32, 113, 117, 101, 115,
      116, 105, 111, 110, 58, 32, 72, 111, 119, 32, 109, 97, 110, 121, 32, 97,
      112, 112, 108, 101, 115, 63>>
\* X_conv_pans: "Converting question: how many pans for the Chef"
X_conv_pans ==
    <<67, 111, 110, 118, 101, 114, 116, 105, 110, 103, 32, 113, 117, 101, 115,
      116, 105, 111, 110, 58, 32, 104, 111, 119, 32, 109, 97, 110, 121, 32,
      112, 97, 110, 115, 32, 102, 111, 114, 32, 116, 104, 101, 32, 67, 104,
      101, 102>>
\* X_conv_rhyme: "Converting question: Pick the rhyme"
X_conv_rhyme ==
    <<67, 111, 110, 118, 101, 114, 116, 105, 110, 103, 32, 113, 117, 101, 115,
      116, 105, 111, 110, 58, 32, 80, 105, 99, 107, 32, 116, 104, 101, 32, 114,
      104, 121, 109, 101>>
\* X_tools: "visual: <U+1F6E0><U+1F6E0><U+1F6E0>"
X_tools == <<118, 105, 115, 117, 97, 108, 58, 32, 128736, 128736, 128736>>
\* X_vballs: "visual: <U+1F3C0><U+1F3C0>"
X_vballs == <<118, 105, 115, 117, 97, 108, 58, 32, 127936, 127936>>
\* X_layout: "Using layoutGrid4 for practice 3"
X_layout ==
    <<85, 115, 105, 110, 103, 32, 108, 97, 121, 111, 117, 116, 71, 114, 105,
      100, 52, 32, 102, 111, 114, 32, 112, 114, 97, 99, 116, 105, 99, 101, 32,
      51>>
\* F_ela_txt: "ela.txt"
F_ela_txt == <<101, 108, 97, 46, 116, 120, 116>>
\* F_notes_txt: "notes.txt"
F_notes_txt == <<110, 111, 116, 101, 115, 46, 116, 120, 116>>
\* F_math_txt: "math.txt"
F_math_txt == <<109, 97, 116, 104, 46, 116, 120, 116>>
\* F_ela_json: "ela.json"
F_ela_json == <<101, 108, 97, 46, 106, 115, 111, 110>>
\* F_math_json: "math.json"
F_math_json == <<109, 97, 116, 104, 46, 106, 115, 111, 110>>
\* F_science_json: "science.json"
F_science_json == <<115, 99, 105, 101, 110, 99, 101, 46, 106, 115, 111, 110>>

\* text logs: the name of the file, whether open() succeeds, and the lines of
\* its content
TextLogs ==
    { [name |-> F_ela_txt, readable |-> TRUE, content |-> <<X_conv_apples>>],
      [name |-> F_notes_txt, readable |-> TRUE,
       content |-> <<X_career_coach, X_conv_rhyme>>],
      [name |-> F_notes_txt, readable |-> TRUE,
       content |-> <<X_career_coach, X_conv_pans, X_tools>>],
      [name |-> F_math_txt, readable |-> TRUE,
       content |-> <<T_balls, X_vballs, X_layout, T_play>>],
      [name |-> F_ela_txt, readable |-> FALSE, content |-> <<>>] }

DataLine(data) == [tag |-> "data", data |-> data]

\* JSON logs: the name of the file, whether open() succeeds, and its lines
\* as json.loads leaves them
JsonLogs ==
    { [name |-> F_ela_json, readable |-> TRUE,
       lines |-> <<DataLine(R2Entry(JList(<<Q_fill, Q_apples>>), JValue(Q_fill),
                                    Absent))>>],
      [name |-> F_math_json, readable |-> TRUE,
       lines |-> <<[tag |-> "malformed"],
                   DataLine(R2Entry(JList(<<Q_whistle, NotADict>>), JValue(Q_balls),
                                    Validation("missing field")))>>],
      [name |-> F_science_json, readable |-> TRUE,
       lines |-> <<DataLine(Scalar),
                   DataLine(R2Entry(Absent, JValue(Q_balls), Absent))>>],
      [name |-> F_ela_json, readable |-> TRUE,
       lines |-> <<DataLine(R2JitEntry(JitContent(JList(<<Q_fill, Q_apples>>),
                                                  JValue(Q_fill))))>>],
      [name |-> F_math_json, readable |-> FALSE, lines |-> <<>>] }

\* the log files analysed so far in the run
LogsRead(logs) == Len(SelectSeq(logs, LAMBDA l : l.kind # "missing"))

InitR2 ==
    /\ FreshAnalyzers
    /\ r2_pc = "student"
    /\ r2_sidx = 1
    /\ r2_logs = <<>>
    /\ r2_printed = <<>>
    /\ ClassifyIdle
    /\ Round1Idle
    /\ RunIdle

\* analyze_student: "if not student_path.exists(): print(...); return"
PathNotFound ==
    /\ r2_pc = "student"
    /\ r2_sidx <= Len(Students)
    /\ r2_logs' = Append(r2_logs, [student |-> Students[r2_sidx].dir,
                                   kind |-> "missing"])
    /\ r2_sidx' = r2_sidx + 1
    /\ UNCHANGED <<r2_issues, r2_stats, r2_pc, r2_printed>>
    /\ UNCHANGED <<classifyVars, detailedVars, round1Vars, runVars>>

\* analyze_student: the directory exists, its *.json and *.txt files are listed
ListLogs ==
    /\ r2_pc = "student"
    /\ r2_sidx <= Len(Students)
    /\ r2_pc' = "json"
    /\ UNCHANGED <<r2_issues, r2_stats, r2_sidx, r2_logs, r2_printed>>
    /\ UNCHANGED <<classifyVars, detailedVars, round1Vars, runVars>>

\* analyze_student: "for json_file in json_files: self.analyze_json_log(...)"
AnalyzeJsonLog ==
    /\ r2_pc = "json"
    /\ LogsRead(r2_logs) < MaxLogs
    /\ \E log \in JsonLogs :
         \E R \in {analyze_json_log([issues |-> r2_issues, stats |-> r2_stats],
                                    log, Students[r2_sidx].dir)} :
           /\ r2_issues' = R.issues
           /\ r2_stats' = R.stats
           /\ r2_logs' = Append(r2_logs, [student |-> Students[r2_sidx].dir,
                                          kind |-> "json", log |-> log])
    /\ UNCHANGED <<r2_pc, r2_sidx, r2_printed>>
    /\ UNCHANGED <<classifyVars, detailedVars, round1Vars, runVars>>

\* analyze_student: "for txt_file in txt_files: self.analyze_text_log(...)"
AnalyzeTextLog ==
    /\ r2_pc \in {"json", "txt"}
    /\ LogsRead(r2_logs) < MaxLogs
    /\ \E log \in TextLogs :
         \E R \in {analyze_text_log([issues |-> r2_issues, stats |-> r2_stats],
                                    log, Students[r2_sidx].dir)} :
           /\ r2_issues' = R.issues
           /\ r2_stats' = R.stats
           /\ r2_logs' = Append(r2_logs, [student |-> Students[r2_sidx].dir,
                                          kind |-> "txt", log |-> log])
    /\ r2_pc' = "txt"
    /\ UNCHANGED <<r2_sidx, r2_printed>>
    /\ UNCHANGED <<classifyVars, detailedVars, round1Vars, runVars>>

\* analyze_student returns, analyze_all_students takes the next student
EndStudent ==
    /\ r2_pc \in {"json", "txt"}
    /\ r2_sidx' = r2_sidx + 1
    /\ r2_pc' = "student"
    /\ UNCHANGED <<r2_issues, r2_stats, r2_logs, r2_printed>>
    /\ UNCHANGED <<classifyVars, detailedVars, round1Vars, runVars>>

\* analyze_all_students: every student is done, print_summary runs
PrintSummary ==
    /\ r2_pc = "student"
    /\ r2_sidx = Len(Students) + 1
    /\ r2_printed' = print_summary([issues |-> r2_issues, stats |-> r2_stats])
    /\ r2_pc' = "done"
    /\ UNCHANGED <<r2_issues, r2_stats, r2_sidx, r2_logs>>
    /\ UNCHANGED <<classifyVars, detailedVars, round1Vars, runVars>>

NextR2 ==
    \/ PathNotFound
    \/ ListLogs
    \/ AnalyzeJsonLog
    \/ AnalyzeTextLog
    \/ EndStudent
    \/ PrintSummary

SpecR2 == InitR2 /\ [][NextR2]_vars

(***************************************************************************)
(* Claims about the classification rules (under SpecClassify)              *)
(***************************************************************************)

\* number of Findings of every kind in an issues map
TotalFindings(iss) ==
    LET RECURSIVE Sum(_)
        Sum(S) == IF S = {} THEN 0
                  ELSE LET k == CHOOSE x \in S : TRUE
                       IN  Len(iss[k]) + Sum(S \ {k})
    IN  Sum(DOMAIN iss)

IsFillBlankQuestion(q) ==
    q.isDict /\ q.type = "fill_blank" /\ EndsWith(q.question, <<QuestionMark>>)

\* C5: a record yields exactly one fill_blank_format Finding when its type is
\* fill_blank and its text ends with '?', and none otherwise, in both analyzers;
\* the fill_blank record "What is the answer?" yields one Finding in total.
C5_FillBlankRule ==
    /\ calledD =>
         /\ Len(issues["fill_blank_format"]) =
                (IF IsFillBlankQuestion(question) THEN 1 ELSE 0)
         /\ (IsFillBlankQuestion(question) /\ question.question = T_answer)
                => TotalFindings(issues) = 1
    /\ calledB =>
         /\ Len(r2_issues["fill_blank_format"]) =
                (IF IsFillBlankQuestion(question) THEN 1 ELSE 0)
         /\ (IsFillBlankQuestion(question) /\ question.question = T_answer)
                => TotalFindings(r2_issues) = 1

\* the part of C5 that Round2DetailedAnalyzer meets
C5_DetailedOnly ==
    calledD =>
        /\ Len(issues["fill_blank_format"]) =
               (IF IsFillBlankQuestion(question) THEN 1 ELSE 0)
        /\ (IsFillBlankQuestion(question) /\ question.question = T_answer)
               => TotalFindings(issues) = 1

\* the text holds a term of the math vocabulary and none of the ELA vocabulary
IsContaminated(q, subject, math, ela) ==
    /\ q.isDict
    /\ subject = "ELA"
    /\ AnyIn(math, Lower(q.question))
    /\ ~AnyIn(ela, Lower(q.question))

\* C6: a record yields a subject_contamination Finding exactly when its subject
\* is ELA and its text holds a math term and no ELA term (each analyzer with
\* its own vocabulary); "How many vowels are in this word" yields none and
\* "How many apples are there" yields one.
C6_ContaminationRule ==
    /\ calledD =>
         Len(issues["subject_contamination"]) =
             (IF IsContaminated(question, csubject, math_terms, ela_terms)
              THEN 1 ELSE 0)
    /\ calledB =>
         Len(r2_issues["subject_contamination"]) =
             (IF IsContaminated(question, csubject, r2_math_words,
                                {W_consonant, W_vowel})
              THEN 1 ELSE 0)

\* the part of C6 that Round2DetailedAnalyzer meets, with the two examples
C6_DetailedOnly ==
    calledD =>
        /\ Len(issues["subject_contamination"]) =
               (IF IsContaminated(question, csubject, math_terms, ela_terms)
                THEN 1 ELSE 0)
        /\ (question.isDict /\ csubject = "ELA" /\ question.question = T_vowels)
               => Len(issues["subject_contamination"]) = 0
        /\ (question.isDict /\ csubject = "ELA" /\ question.question = T_apples)
               => Len(issues["subject_contamination"]) = 1

\* C8: a record with career Coach whose visual holds the tool glyph yields
\* exactly one wrong_emoji Finding, whatever its type and text.
C8_WrongEmojiRule ==
    (calledD /\ question.isDict /\ ccareer = "Coach"
             /\ ToolGlyph \in Range(question.visual))
        => Len(issues["wrong_emoji"]) = 1

\* a pictographic character (of the range lo..hi) occurs in text and in visual
SharesPictograph(q, lo, hi) ==
    /\ q.isDict
    /\ q.visual # <<>>
    /\ q.visual # <<PlaceholderGlyph>>
    /\ \E c \in Range(q.question) :
           c >= lo /\ c <= hi /\ c \in Range(q.visual)

\* C9: a record of any type yields an emoji_duplication Finding exactly when
\* visual is non-empty, not the placeholder, and shares a pictographic
\* character with text (each analyzer with its own pictograph range).
C9_EmojiDuplicationRule ==
    /\ calledD =>
         Len(issues["emoji_duplication"]) =
             (IF SharesPictograph(question, EmojiLo, EmojiHi) THEN 1 ELSE 0)
    /\ calledB =>
         Len(r2_issues["emoji_duplication"]) =
             (IF SharesPictograph(question, R2EmojiLo, R2EmojiHi) THEN 1 ELSE 0)

\* a maximal run of at least MinCapsRun upper-case letters other than LEARN
HasCapsRun(s) ==
    \E i \in 1..Len(s) : \E j \in i..Len(s) :
        /\ j - i + 1 >= MinCapsRun
        /\ \A k \in i..j : IsUpperAZ(s[k])
        /\ (i = 1 \/ ~IsUpperAZ(s[i - 1]))
        /\ (j = Len(s) \/ ~IsUpperAZ(s[j + 1]))
        /\ SubSeq(s, i, j) # W_LEARN

\* C10: a record of any subject yields an uppercase Finding exactly when its
\* text holds a run of at least 4 upper-case letters that is not the
\* allow-listed token.
C10_UppercaseRule ==
    calledD =>
        Len(issues["uppercase"]) =
            (IF question.isDict /\ HasCapsRun(question.question) THEN 1 ELSE 0)

(***************************************************************************)
(* Properties of the aggregation                                           *)
(***************************************************************************)

Reverse(s) == [i \in 1..Len(s) |-> s[Len(s) + 1 - i]]

\* the two sequences hold the same elements the same number of times
SameBag(s, t) ==
    /\ Len(s) = Len(t)
    /\ \A i \in 1..Len(s) :
           Cardinality({j \in 1..Len(s) : s[j] = s[i]})
               = Cardinality({j \in 1..Len(t) : t[j] = s[i]})

\* C1: folding the log files of a run in the opposite order leaves the same
\* aggregate: the same per-student metrics (practice_count included) and, kind
\* by kind, the same Findings.
C1_AggregationCommutes ==
    rpc = "done" =>
        LET rev == AnalyzeFiles(NewAnalyzer, Reverse(processed))
        IN  /\ stats = rev.stats
            /\ \A k \in IssueKinds : SameBag(issues[k], rev.issues[k])

\* the merge of two partial aggregates that section 5 of the specification
\* asks for: counters add key by key, per-student collections are united
GetOr(d, key, default) == IF key \in DOMAIN d THEN d[key] ELSE default

Merge(L, R) ==
    [total_layout_decisions |-> L.total_layout_decisions + R.total_layout_decisions,
     layout_distribution |->
         [t \in LayoutTypes |-> L.layout_distribution[t] + R.layout_distribution[t]],
     content_distribution |->
         [t \in ContentTypes |-> L.content_distribution[t] + R.content_distribution[t]],
     common_issues |->
         [x \in IssueTexts |-> L.common_issues[x] + R.common_issues[x]],
     practice_question_counts |->
         [c \in PracticeCounts |->
             L.practice_question_counts[c] + R.practice_question_counts[c]],
     subjects_by_student |->
         [s \in DOMAIN L.subjects_by_student \cup DOMAIN R.subjects_by_student |->
             GetOr(L.subjects_by_student, s, {}) \cup GetOr(R.subjects_by_student, s, {})],
     uppercase_issues_count |-> L.uppercase_issues_count + R.uppercase_issues_count,
     errors_by_student |->
         [s \in DOMAIN L.errors_by_student \cup DOMAIN R.errors_by_student |->
             SelectSeq(ErrorTypes,
                 LAMBDA e : e \in Range(GetOr(L.errors_by_student, s, <<>>))
                                \cup Range(GetOr(R.errors_by_student, s, <<>>)))]]

\* C2: for every split point of the per-file results, summarising the two
\* halves apart and merging the two summaries gives the summary of the one
\* sequential fold, subjects_by_student and errors_by_student included.
C2_SplitAndMerge ==
    (script = "analysis_script" /\ pc = "done" /\ all_results # <<>>) =>
        \A k \in 0..Len(all_results) :
            Merge(summarize_results(SubSeq(all_results, 1, k)),
                  summarize_results(SubSeq(all_results, k + 1, Len(all_results))))
                = summary

\* the totals a percentage of the report is taken of: the layout decisions of
\* the run, and per grade band those of the band and of each of its subjects
TotalsInScope ==
    IF script = "analysis_script"
    THEN {summary.total_layout_decisions}
    ELSE {SumValues(grade_patterns[c].layout_preference) : c \in DOMAIN grade_patterns}
             \cup {SumValues(grade_patterns[c].subjects[s]) :
                       c \in DOMAIN grade_patterns, s \in BlockSubjectsU}

\* the rows of percentages the report has printed
ReportRows ==
    IF script = "analysis_script"
    THEN {<<report[t], summary.total_layout_decisions>> : t \in DOMAIN report}
    ELSE UNION {
             {<<report[c].overall[t], SumValues(grade_patterns[c].layout_preference)>> :
                  t \in DOMAIN report[c].overall}
             \cup UNION {
                 {<<report[c].by_subject[s][t], SumValues(grade_patterns[c].subjects[s])>> :
                      t \in DOMAIN report[c].by_subject[s]} :
                 s \in DOMAIN report[c].by_subject} :
             c \in DOMAIN report}

IsPercentOf(p, count, total) ==
    /\ p # ZeroDivisionError
    /\ total = 0 => p.num = 0
    /\ total > 0 => p.num * total = count * 100 * p.den

\* C3: in every aggregate state of a run, a percentage of any count within a
\* total in scope is count / total * 100, is 0 when the total is 0 (an empty
\* summary, an empty grade band), and never faults; the printed rows carry
\* that value.
C3_PercentagesNeverFault ==
    /\ \A total \in TotalsInScope :
           \A count \in 0..total : IsPercentOf(Percentage(count, total), count, total)
    /\ \A row \in ReportRows : IsPercentOf(row[1].percentage, row[1].count, row[2])

\* a report with an empty grade band next to a band whose rows share a total
C3_EmptyBandReported ==
    /\ script = "detailed_layout_analysis"
    /\ pc = "done"
    /\ \E c \in DOMAIN report : SumValues(grade_patterns[c].layout_preference) = 0
    /\ \E c \in DOMAIN report : Cardinality(DOMAIN report[c].overall) = 2

\* the sum over the exported per-student counters of one key
RECURSIVE SumOver(_, _, _)
SumOver(rows, field, key) ==
    IF rows = <<>> THEN 0
    ELSE GetOr(Head(rows)[field], key, 0) + SumOver(Tail(rows), field, key)

\* C4: in the exported document, the per-student layout_types and
\* content_types counters of detailed_results add up, key by key, to the
\* layout_distribution and content_distribution of summary; neither side has
\* a key the other lacks.
C4_ExportRoundTrip ==
    (script = "analysis_script" /\ pc = "done" /\ files # <<>>) =>
        /\ \A t \in LayoutTypes :
               SumOver(export.detailed_results, "layout_types", t)
                   = GetOr(export.summary.layout_distribution, t, 0)
        /\ \A t \in ContentTypes :
               SumOver(export.detailed_results, "content_types", t)
                   = GetOr(export.summary.content_distribution, t, 0)
        /\ DOMAIN export.summary.layout_distribution \subseteq LayoutTypes
        /\ DOMAIN export.summary.content_distribution \subseteq ContentTypes

\* an export of several files, two of them of one student, with layout
\* decisions in more than one file
C4_ExportOfSeveralFiles ==
    /\ script = "analysis_script"
    /\ pc = "done"
    /\ files # <<>>
    /\ \E i, j \in 1..Len(export.detailed_results) :
           /\ i < j
           /\ export.detailed_results[i].student = export.detailed_results[j].student
           /\ DOMAIN export.detailed_results[i].layout_types # {}
           /\ DOMAIN export.detailed_results[j].layout_types # {}

\* the JSON lines read so far whose jitContent.practice is a list
RECURSIVE AllLines(_)
AllLines(logs) ==
    IF logs = <<>> THEN <<>> ELSE Head(logs).lines \o AllLines(Tail(logs))

IsPracticeBatch(line) ==
    /\ line.json.tag = "data"
    /\ line.json.data.jitContent.tag = "dict"
    /\ line.json.data.jitContent.practice.tag = "list"

BatchLength(line) == Len(line.json.data.jitContent.practice.items)

LowBatches(logs) ==
    SelectSeq(AllLines(logs),
              LAMBDA l : IsPracticeBatch(l) /\ BatchLength(l) < ExpectedPractice)

\* C7: the low_practice Findings are, in order, one per practice batch shorter
\* than 5 read so far, each carrying the length of its batch; a batch of 5 or
\* more adds none, and a batch of 3 adds one, not three.
C7_LowPracticeOncePerBatch ==
    /\ Len(issues["low_practice"]) = Len(LowBatches(processed))
    /\ \A i \in 1..Len(issues["low_practice"]) :
           issues["low_practice"][i].count = BatchLength(LowBatches(processed)[i])

\* a run that has read a batch of 3 and a batch of 5 and holds one low_practice
C7_ShortAndFullBatch ==
    /\ rpc = "done"
    /\ \E l \in Range(AllLines(processed)) : IsPracticeBatch(l) /\ BatchLength(l) = 3
    /\ \E l \in Range(AllLines(processed)) : IsPracticeBatch(l) /\ BatchLength(l) = 5
    /\ Len(issues["low_practice"]) = 1

(***************************************************************************)
(* Missing-career rule                                                     *)
(***************************************************************************)

\* the missing-career rule on one record: a career is in scope, the grade is
\* not K, and the career name is no case-insensitive substring of the text
CareerIsMissing(career, grade, text) ==
    /\ career # NoField
    /\ grade # "K"
    /\ ~Contains(Lower(text), Lower(career))

\* the career in scope at line i of a text log: the name the most recent
\* Career marker among the lines 1..i gives, NoField before any marker
RECURSIVE CareerInScope(_, _)
CareerInScope(content, i) ==
    IF i = 0 THEN NoField
    ELSE IF CareerMatch(content[i]) # NoField THEN CareerMatch(content[i])
    ELSE CareerInScope(content, i - 1)

\* a line that reports the conversion of a question
IsQuestionLine(line) ==
    Contains(Lower(line), W_converting) /\ Contains(Lower(line), W_question)

GradeOf(student) == (CHOOSE i \in 1..Len(Students) : Students[i].dir = student)

\* the question lines of the text logs read for a student that the rule counts
RECURSIVE ExpectedMissingCareer(_, _)
ExpectedMissingCareer(logs, student) ==
    IF logs = <<>> THEN 0
    ELSE LET l == Head(logs)
             content == l.log.content
         IN  (IF l.kind = "txt" /\ l.student = student
              THEN Cardinality({i \in 1..Len(content) :
                       /\ IsQuestionLine(content[i])
                       /\ CareerIsMissing(CareerInScope(content, i),
                                          Students[GradeOf(student)].grade,
                                          content[i])})
              ELSE 0)
             + ExpectedMissingCareer(Tail(logs), student)

\* C11: the missing_career counter of a student is one per question record
\* with a career in scope, a grade other than K, and a text that does not hold
\* the career name (case-insensitive), and is unchanged otherwise; the
\* missing_career Finding list stays empty. Stated for Round2Analyzer, whose
\* records are the question lines of the text logs.
C11_MissingCareerRule ==
    /\ \A s \in StudentDirs :
           r2_stats[s]["missing_career"] = ExpectedMissingCareer(r2_logs, s)
    /\ r2_issues["missing_career"] = <<>>

\* the part of C11 that Round2DetailedAnalyzer meets: one call of
\* analyze_question adds one to the counter exactly under the rule and leaves
\* the Finding list empty
C11_DetailedOnly ==
    calledD =>
        /\ stats[cstudent]["missing_career"] =
               (IF /\ question.isDict
                   /\ CareerIsMissing(IF ccareer = PyNone THEN NoField
                                      ELSE Chars(ccareer),
                                      cgrade, question.question)
                THEN 1 ELSE 0)
        /\ issues["missing_career"] = <<>>

(***************************************************************************)
(* The printed report                                                      *)
(***************************************************************************)

\* the tier the rule set assigns to an issue kind (rules 1 to 6)
RuleTier(kind) ==
    CASE kind = "subject_contamination" -> "critical"
      [] kind \in {"emoji_duplication", "wrong_emoji", "uppercase",
                   "fill_blank_format"} -> "moderate"
      [] kind = "low_practice" -> "minor"

RuleKinds ==
    {"subject_contamination", "emoji_duplication", "wrong_emoji", "uppercase",
     "fill_blank_format", "low_practice"}

TierRank(tier) ==
    CASE tier = "critical" -> 1 [] tier = "moderate" -> 2 [] tier = "minor" -> 3

RECURSIVE TierCount(_, _)
TierCount(sections, tier) ==
    IF sections = <<>> THEN 0
    ELSE (IF Head(sections).tier = tier THEN Head(sections).count ELSE 0)
         + TierCount(Tail(sections), tier)

\* C12: the report of print_detailed_summary lists the issue kinds in the
\* order critical, moderate, minor; every kind stands in the tier its rule
\* names (subject_contamination critical; emoji_duplication, wrong_emoji,
\* uppercase, fill_blank_format moderate; low_practice minor); and the total
\* printed for a tier is the number of Findings listed under that tier.
C12_SeverityGrouping ==
    rpc = "done" =>
        LET sections == printed.sections
        IN  /\ \A i \in 1..Len(sections) :
                   sections[i].kind \in RuleKinds
                       => sections[i].tier = RuleTier(sections[i].kind)
            /\ \A i \in 1..Len(sections) : \A j \in i..Len(sections) :
                   TierRank(sections[i].tier) <= TierRank(sections[j].tier)
            /\ printed.totals.critical = TierCount(sections, "critical")
            /\ printed.totals.moderate = TierCount(sections, "moderate")
            /\ printed.totals.minor = TierCount(sections, "minor")

\* the part of C12 that print_detailed_summary meets: the tiers come in order
\* and each printed total is the number of Findings listed under its tier
C12_OrderAndTotals ==
    rpc = "done" =>
        LET sections == printed.sections
        IN  /\ \A i \in 1..Len(sections) : \A j \in i..Len(sections) :
                   TierRank(sections[i].tier) <= TierRank(sections[j].tier)
            /\ printed.totals.critical = TierCount(sections, "critical")
            /\ printed.totals.moderate = TierCount(sections, "moderate")
            /\ printed.totals.minor = TierCount(sections, "minor")
            /\ \A i \in 1..Len(sections) :
                   sections[i].kind \in RuleKinds \ {"emoji_duplication"}
                       => sections[i].tier = RuleTier(sections[i].kind)

(***************************************************************************)
(* Malformed lines                                                         *)
(***************************************************************************)

\* a line json.loads rejects
IsUnparsable(line) == line.json.tag = "malformed"

\* a parsed entry whose jitContent or validation is not a container
IsIllShaped(line) ==
    /\ line.json.tag = "data"
    /\ \/ line.json.data.jitContent.tag = "scalar"
       \/ line.json.data.validation.tag = "scalar"

\* the files of a run as written, every line after a fault included, without
\* the lines chosen by the flags
RECURSIVE WithoutLines(_, _, _)
WithoutLines(logs, unparsable, ill_shaped) ==
    IF logs = <<>> THEN <<>>
    ELSE <<[student |-> Head(logs).student, grade |-> Head(logs).grade,
            lines |-> SelectSeq(Head(logs).lines \o Head(logs).skipped,
                          LAMBDA l : /\ ~(unparsable /\ IsUnparsable(l))
                                     /\ ~(ill_shaped /\ IsIllShaped(l)))]>>
         \o WithoutLines(Tail(logs), unparsable, ill_shaped)

\* C13: a line that does not parse, or a parsed entry whose jitContent or
\* validation is no container, never ends its file: the Findings of a run are
\* those of the same files with these lines taken out, the lines that follow
\* them included.
C13_MalformedLineSkipped ==
    issues = AnalyzeFiles(NewAnalyzer, WithoutLines(processed, TRUE, TRUE)).issues

\* the part of C13 the code meets: while no ill-shaped entry has been read,
\* the Findings are those of the files without their unparsable lines
C13_UnparsableLineSkipped ==
    (\A i \in 1..Len(processed) : processed[i].skipped = <<>>
        /\ \A j \in 1..Len(processed[i].lines) : ~IsIllShaped(processed[i].lines[j]))
    => issues = AnalyzeFiles(NewAnalyzer, WithoutLines(processed, TRUE, FALSE)).issues

(***************************************************************************)
(* Unreadable files                                                        *)
(***************************************************************************)

\* the files of a Round 1 run that could be read: all of them, or all but
\* the one whose open() raised
ReadableFiles ==
    IF pc = "crashed"
    THEN SubSeq(files, 1, Len(all_results))
         \o SubSeq(files, Len(all_results) + 2, Len(files))
    ELSE files

RECURSIVE ResultsOf(_)
ResultsOf(fs) ==
    IF fs = <<>> THEN <<>>
    ELSE <<analyze_log_file(Head(fs))>> \o ResultsOf(Tail(fs))

RECURSIVE ContextResultsOf(_)
ContextResultsOf(fs) ==
    IF fs = <<>> THEN <<>>
    ELSE <<analyze_layout_patterns_by_context(Head(fs))>> \o ContextResultsOf(Tail(fs))

\* C14: a file that cannot be read is skipped and is not fatal: when a run
\* over at least one file has ended, the results have been saved (which
\* follows the printing of the final summary), and the aggregate holds the
\* contributions of exactly the files that could be read.
C14_UnreadableFileSkipped ==
    (pc \in {"done", "crashed"} /\ files # <<>>) =>
        /\ export # <<>>
        /\ script = "analysis_script"
               => summary = summarize_results(ResultsOf(ReadableFiles))
        /\ script = "detailed_layout_analysis"
               => grade_patterns = analyze_grade_patterns(ContextResultsOf(ReadableFiles))

\* the same statement for the runs in which every file could be read
C14_AllFilesReadable ==
    (pc = "done" /\ files # <<>>) =>
        /\ export # <<>>
        /\ script = "analysis_script"
               => summary = summarize_results(ResultsOf(files))
        /\ script = "detailed_layout_analysis"
               => grade_patterns = analyze_grade_patterns(ContextResultsOf(files))

(***************************************************************************)
(* Questions before any marker                                             *)
(***************************************************************************)

\* every sample the run has stored
AllSamples ==
    UNION { Range(question_samples[k]) : k \in DOMAIN question_samples }

\* the values a Subject marker (resp. a Career marker) of the logs can set
MarkerSubjects ==
    { StrOf(SubjectMatch(l.text)) : l \in { x \in LogLines : SubjectMatch(x.text) # NoField } }

MarkerCareers ==
    { StrOf(CareerMatch(l.text)) : l \in { x \in LogLines : CareerMatch(x.text) # NoField } }

\* C15: a question read before any Subject or Career marker of its file is
\* classified with the subject and the career "unknown": every stored sample
\* carries the value of a marker or "unknown", and so does every Finding that
\* names a subject.
C15_UnknownContext ==
    /\ \A s \in AllSamples :
           /\ s.subject \in MarkerSubjects \cup {"unknown"}
           /\ s.career \in MarkerCareers \cup {"unknown"}
    /\ \A f \in Range(issues["emoji_duplication"]) \cup Range(issues["fill_blank_format"]) :
           f.subject \in MarkerSubjects \cup {"unknown"}

\* the rest of the statement: a line read while no marker is in scope adds no
\* subject_contamination Finding, no wrong_emoji Finding of the career rule
\* and no missing_career count
C15_ContextRulesSilent ==
    [][(/\ rpc = "scanning"
        /\ processed' # processed
        /\ current_subject' = PyNone
        /\ current_career' = PyNone)
       => /\ issues'["subject_contamination"] = issues["subject_contamination"]
          /\ \A s \in StudentDirs :
                 stats'[s]["missing_career"] = stats[s]["missing_career"]
          /\ \A i \in (Len(issues["wrong_emoji"]) + 1)..Len(issues'["wrong_emoji"]) :
                 issues'["wrong_emoji"][i].msg # "tool"]_vars

(***************************************************************************)
(* Context markers                                                         *)
(***************************************************************************)

Max(S) == CHOOSE x \in S : \A y \in S : y <= x

\* the value of the last Subject marker (resp. Career marker) among lines,
\* None when there is none
LastSubject(lines) ==
    LET marked == { i \in 1..Len(lines) : SubjectMatch(lines[i].text) # NoField }
    IN  IF marked = {} THEN PyNone
        ELSE StrOf(SubjectMatch(lines[Max(marked)].text))

LastCareer(lines) ==
    LET marked == { i \in 1..Len(lines) : CareerMatch(lines[i].text) # NoField }
    IN  IF marked = {} THEN PyNone
        ELSE StrOf(CareerMatch(lines[Max(marked)].text))

\* C16: last marker wins, within one file: after each step of the scan of a
\* file (its opening included) the subject and the career in scope are those of
\* the last Subject and the last Career marker among the lines of that file
\* read so far, and every sample the step stores carries these two values.
C16_LastMarkerWins ==
    [][(processed' # processed /\ rpc' \in {"scanning", "raised"})
       => LET read == processed'[Len(processed')].lines
          IN  /\ current_subject' = LastSubject(read)
              /\ current_career' = LastCareer(read)
              /\ \A k \in DOMAIN question_samples :
                   \A i \in (Len(question_samples[k]) + 1)..Len(question_samples'[k]) :
                       /\ question_samples'[k][i].subject = LastSubject(read)
                       /\ question_samples'[k][i].career = LastCareer(read)]_vars

\* a file with two Subject markers and a question stored under the second
C16_Witness ==
    /\ processed # <<>>
    /\ processed[Len(processed)].lines =
           <<TextLine(X_subject_ela), TextLine(X_subject_math), JsonLine(E_p3)>>
    /\ question_samples["MATH"] # <<>>
    /\ \A s \in Range(question_samples["MATH"]) : s.career = PyNone
    /\ question_samples["ELA"] = <<>>

(***************************************************************************)
(* Classification and accumulated state                                    *)
(***************************************************************************)

\* C17: what the scan of a line adds does not depend on what the analyzer
\* has accumulated: the Findings, the samples and the missing_career counts a
\* step adds are those an analyzer without any Finding or count adds for the
\* same line under the same subject, career, student and grade.
C17_StateIndependent ==
    [][(rpc = "scanning" /\ processed' # processed)
       => LET n == Len(processed)
              read == processed'[n].lines
          IN  \A fresh \in {ScanLineOp(NewAnalyzer, current_subject, current_career,
                                       read[Len(read)], processed[n].student,
                                       processed[n].grade).A} :
                  /\ \A k \in DOMAIN issues :
                         issues'[k] = issues[k] \o fresh.issues[k]
                  /\ \A k \in DOMAIN question_samples :
                         question_samples'[k]
                             = question_samples[k] \o fresh.question_samples[k]
                  /\ \A s \in StudentDirs :
                         stats'[s]["missing_career"]
                             = stats[s]["missing_career"]
                               + fresh.stats[s]["missing_career"]]_vars

\* the same batch read twice under the same career: the second reading has
\* added the Findings and the counts of the first once more
C17_SameRecordTwice ==
    /\ processed # <<>>
    /\ processed[Len(processed)].lines =
           <<TextLine(X_career_coach), JsonLine(E_p3), JsonLine(E_p3)>>
    /\ Len(issues["wrong_emoji"]) = 4
    /\ issues["wrong_emoji"][1] = issues["wrong_emoji"][3]
    /\ issues["wrong_emoji"][2] = issues["wrong_emoji"][4]
    /\ \E s \in StudentDirs : stats[s]["missing_career"] >= 2

(***************************************************************************)
(* Students without a grade                                                *)
(***************************************************************************)

\* extract_grade found no grade in the name of the student directory
IsUnresolved(result) == result.grade < 0

RECURSIVE ResolvedOnly(_)
ResolvedOnly(results) ==
    IF results = <<>> THEN <<>>
    ELSE (IF IsUnresolved(Head(results)) THEN <<>> ELSE <<Head(results)>>)
         \o ResolvedOnly(Tail(results))

\* C18: a student whose grade cannot be resolved is placed in the band
\* "unknown" and in none of K-2, 3-8, 9-12: after a run of the grade analysis
\* the students, the layout counts and the counts by subject of each of the
\* three bands are those of the results with a resolved grade, and a run with
\* an unresolved student holds the band "unknown" with that student.
C18_UnresolvedGradeBand ==
    (script = "detailed_layout_analysis" /\ pc = "done" /\ files # <<>>) =>
        /\ \A c \in DOMAIN EmptyGradePatterns :
               grade_patterns[c] = analyze_grade_patterns(ResolvedOnly(all_results))[c]
        /\ \A i \in 1..Len(all_results) :
               IsUnresolved(all_results[i]) =>
                   /\ "unknown" \in DOMAIN grade_patterns
                   /\ \E j \in 1..Len(grade_patterns["unknown"].students) :
                          grade_patterns["unknown"].students[j] = all_results[i].student

\* the bands of the runs in which every grade resolves: each student stands
\* in the band of its grade
C18_ResolvedGrades ==
    (script = "detailed_layout_analysis" /\ pc = "done" /\ files # <<>>) =>
        \A i \in 1..Len(all_results) :
            ~IsUnresolved(all_results[i]) =>
                \E c \in DOMAIN EmptyGradePatterns :
                    /\ \E j \in 1..Len(grade_patterns[c].students) :
                           grade_patterns[c].students[j] = all_results[i].student
                    /\ c = (IF all_results[i].grade <= 2 THEN "K-2"
                            ELSE IF all_results[i].grade <= 8 THEN "3-8"
                            ELSE "9-12")

(***************************************************************************)
(* Truncation of the reports                                               *)
(***************************************************************************)

\* a section of a report shows the first PreviewLen Findings of its kind, in
\* the order of their insertion, and is followed by "... and N more" with
\* N = (number of Findings - PreviewLen) exactly when N is positive
IsTruncated(section, found) ==
    /\ section.count = Len(found)
    /\ section.shown = SubSeq(found, 1, IF Len(found) < PreviewLen THEN Len(found)
                                        ELSE PreviewLen)
    /\ section.more = (IF Len(found) > PreviewLen THEN Len(found) - PreviewLen
                       ELSE 0)

\* C19: in the report of Round2Analyzer.print_summary every section, of
\* every tier, is truncated to the preview count and carries the "more" suffix
\* exactly when its kind holds more Findings than the preview count.
C19_ReportTruncation ==
    r2_pc = "done" =>
        \A i \in 1..Len(r2_printed.sections) :
            IsTruncated(r2_printed.sections[i],
                        r2_issues[r2_printed.sections[i].kind])

\* the same statement for the report of
\* Round2DetailedAnalyzer.print_detailed_summary
C19_DetailedTruncation ==
    rpc = "done" =>
        \A i \in 1..Len(printed.sections) :
            IsTruncated(printed.sections[i], issues[printed.sections[i].kind])

(***************************************************************************)
(* Completeness of the export                                              *)
(***************************************************************************)

\* C20: the export is never truncated: after a run, the exported entry of
\* every analysed file holds every issue (and, for analysis_script, every
\* error) the run has accumulated for it.
C20_ExportComplete ==
    (pc = "done" /\ files # <<>>) =>
        /\ script = "analysis_script" =>
               /\ Len(export.detailed_results) = Len(all_results)
               /\ \A i \in 1..Len(all_results) :
                      /\ export.detailed_results[i].issues = all_results[i].issues
                      /\ export.detailed_results[i].errors = all_results[i].errors
        /\ script = "detailed_layout_analysis" =>
               /\ Len(export.individual_results) = Len(all_results)
               /\ \A i \in 1..Len(all_results) :
                      export.individual_results[i].issues
                          = all_results[i].layout_issues

\* the same statement for analysis_script alone
C20_ResultsExportComplete ==
    (script = "analysis_script" /\ pc = "done" /\ files # <<>>) =>
        /\ Len(export.detailed_results) = Len(all_results)
        /\ \A i \in 1..Len(all_results) :
               /\ export.detailed_results[i].issues = analyze_log_file(files[i]).issues
               /\ export.detailed_results[i].errors = analyze_log_file(files[i]).errors

(***************************************************************************)
(* Failures of the whole run                                               *)
(***************************************************************************)

\* C21: a run that finds no input file, or cannot write its export, ends
\* with a non-zero exit status, never as a normal completion.
C21_ResourceFailureSignalled ==
    (HasExited /\ (files = <<>> \/ pc = "export_failed"))
        => ExitStatus # 0

\* the part of the statement about the export: a run whose export cannot be
\* written ends with a non-zero status and leaves no export
C21_ExportFailureSignalled ==
    (HasExited /\ files # <<>> /\ export = <<>>) => ExitStatus # 0

(***************************************************************************)
(* Findings are append-only                                                *)
(***************************************************************************)

\* the list new holds the list old, unchanged, as its beginning
ExtendsList(new, old) ==
    /\ Len(old) <= Len(new)
    /\ \A i \in 1..Len(old) : new[i] = old[i]

\* C22: Findings are append-only: in every step of a run of
\* Round2DetailedAnalyzer each list of Findings is unchanged or extended at
\* its end; no recorded Finding is removed, moved or modified.
C22_AppendOnly ==
    [][\A k \in DOMAIN issues : ExtendsList(issues'[k], issues[k])]_vars

\* the same statement for the lists of Round2Analyzer
C22_R2AppendOnly ==
    [][\A k \in DOMAIN r2_issues : ExtendsList(r2_issues'[k], r2_issues[k])]_vars

\* a run in which a list has been extended twice, by Findings of two students
C22_TwoFindings ==
    /\ Len(issues["fill_blank_format"]) = 2
    /\ issues["fill_blank_format"][1].student # issues["fill_blank_format"][2].student
    /\ rpc = "scanning"

(***************************************************************************)
(* Grade resolution                                                        *)
(***************************************************************************)

\* the grade the suffix of a student identifier names: the part after the
\* last '-' is k, 1, 7 or 10; -1 for any other identifier
SuffixGrade(name) ==
    LET dashes == { i \in 1..Len(name) : name[i] = 45 }
        suffix == IF dashes = {} THEN <<>>
                  ELSE SubSeq(name, Max(dashes) + 1, Len(name))
    IN  IF Lower(suffix) = <<107>> THEN 0
        ELSE IF suffix = <<49>> THEN 1
        ELSE IF suffix = <<55>> THEN 7
        ELSE IF suffix = <<49, 48>> THEN 10
        ELSE -1

\* the band that contains a grade
BandOfGrade(g) == IF g <= 2 THEN "K-2" ELSE IF g <= 8 THEN "3-8" ELSE "9-12"

\* the result of file i carries grade g and its student stands in the band
\* of g and in no other band
ResolvedAs(i, g) ==
    /\ all_results[i].grade = g
    /\ \A c \in DOMAIN grade_patterns :
           (\E j \in 1..Len(grade_patterns[c].students) :
                grade_patterns[c].students[j] = all_results[i].student)
               <=> c = BandOfGrade(g)

\* C23: after a run of the grade analysis every student whose identifier
\* ends in k, -1, -7 or -10 carries the grade 0, 1, 7 or 10 and stands in the
\* band of that grade: taylor-10 has grade 10 and band 9-12, jordan-7 grade 7
\* and band 3-8.
C23_GradeFromSuffix ==
    (script = "detailed_layout_analysis" /\ pc = "done" /\ files # <<>>) =>
        \A i \in 1..Len(all_results) :
            SuffixGrade(NameChars(files[i].student)) # -1 =>
                ResolvedAs(i, SuffixGrade(NameChars(files[i].student)))

\* the same statement for the identifiers that end in k, -1 or -7
C23_GradesBelowTen ==
    (script = "detailed_layout_analysis" /\ pc = "done" /\ files # <<>>) =>
        \A i \in 1..Len(all_results) :
            SuffixGrade(NameChars(files[i].student)) \in {0, 1, 7} =>
                ResolvedAs(i, SuffixGrade(NameChars(files[i].student)))

(***************************************************************************)
(* Surfacing of the questions of an entry                                  *)
(***************************************************************************)

\* the entry with the practice list and the assessment it holds under
\* jitContent placed directly in it
Surfaced(data) ==
    IF data.tag = "dict" /\ data.jitContent.tag = "dict"
    THEN R2Entry(data.jitContent.practice, data.jitContent.assessment,
                 data.validation)
    ELSE data

SurfacedLog(log) ==
    [log EXCEPT !.lines =
        [i \in 1..Len(log.lines) |->
            IF log.lines[i].tag = "data"
            THEN DataLine(Surfaced(log.lines[i].data))
            ELSE log.lines[i]]]

\* the run of Round2Analyzer over the logs read so far, with the questions
\* under jitContent surfaced
RECURSIVE ReplaySurfaced(_, _)
ReplaySurfaced(R, logs) ==
    IF logs = <<>> THEN R
    ELSE Then(IF Head(logs).kind = "json"
              THEN analyze_json_log(R, SurfacedLog(Head(logs).log), Head(logs).student)
              ELSE IF Head(logs).kind = "txt"
              THEN analyze_text_log(R, Head(logs).log, Head(logs).student)
              ELSE R,
              LAMBDA r : ReplaySurfaced(r, Tail(logs)))

\* a log read so far holds an entry with questions under jitContent
HasWrappedEntry(logs) ==
    \E i \in 1..Len(logs) :
        /\ logs[i].kind = "json"
        /\ \E j \in 1..Len(logs[i].log.lines) :
               /\ logs[i].log.lines[j].tag = "data"
               /\ logs[i].log.lines[j].data.tag = "dict"
               /\ logs[i].log.lines[j].data.jitContent.tag = "dict"

\* C24: every question of an entry is classified once, whether its practice
\* list and its assessment stand directly in the entry or under jitContent:
\* the Findings about questions that Round2Analyzer holds are those of the
\* same logs with the questions under jitContent placed directly in their
\* entries.
C24_QuestionsSurfaced ==
    \A k \in R2IssueKinds \ {"validation"} :
        r2_issues[k] = ReplaySurfaced(R2NewAnalyzer, r2_logs).issues[k]

\* the same statement for the runs without an entry that uses jitContent
C24_DirectQuestionsSurfaced ==
    ~HasWrappedEntry(r2_logs) =>
        \A k \in R2IssueKinds \ {"validation"} :
            r2_issues[k] = ReplaySurfaced(R2NewAnalyzer, r2_logs).issues[k]

\* the records of a list, in list order
RECURSIVE RecordsOf(_)
RecordsOf(items) ==
    IF items = <<>> THEN <<>>
    ELSE (IF Head(items).isDict THEN <<Head(items)>> ELSE <<>>)
         \o RecordsOf(Tail(items))

\* the questions of the jitContent of a line, practice first, that are records
QuestionsOf(line) ==
    IF line.json.tag # "data" \/ line.json.data.jitContent.tag # "dict" THEN <<>>
    ELSE LET jit == line.json.data.jitContent
         IN  (IF jit.practice.tag = "list" THEN RecordsOf(jit.practice.items)
              ELSE <<>>)
             \o (IF jit.assessment.tag = "value" /\ jit.assessment.v.isDict
                 THEN <<jit.assessment.v>> ELSE <<>>)

\* the question of a line that a label names, as a list of one; the empty
\* list when the label names no record
Labelled(line, q_id) ==
    LET jit == line.json.data.jitContent
    IN  IF line.json.tag # "data" \/ jit.tag # "dict" THEN <<>>
        ELSE IF q_id.kind = "Assessment"
        THEN (IF jit.assessment.tag = "value" /\ jit.assessment.v.isDict
              THEN <<jit.assessment.v>> ELSE <<>>)
        ELSE IF /\ jit.practice.tag = "list"
                /\ q_id.n \in 1..Len(jit.practice.items)
                /\ jit.practice.items[q_id.n].isDict
        THEN <<jit.practice.items[q_id.n]>>
        ELSE <<>>

\* the part of the statement about ordinals, for Round2DetailedAnalyzer: the
\* scan of a line stores one sample per record of its practice list and of
\* its assessment, in order, and every Finding it adds about a question is
\* labelled with the 1-based list position of that question, or with the
\* assessment label; an element that is no record adds nothing
C24_DetailedOrdinals ==
    [][(rpc = "scanning" /\ processed' # processed /\ rpc' = "scanning")
       => LET read == processed'[Len(processed)].lines
              line == read[Len(read)]
              new_samples == SubSeq(question_samples'[current_subject'],
                                    Len(question_samples[current_subject']) + 1,
                                    Len(question_samples'[current_subject']))
          IN  /\ Len(new_samples) = Len(QuestionsOf(line))
              /\ \A i \in 1..Len(new_samples) :
                     /\ new_samples[i].type = QuestionsOf(line)[i].type
                     /\ new_samples[i].question = QuestionsOf(line)[i].question
              /\ \A k \in {"fill_blank_format", "subject_contamination",
                           "emoji_duplication", "uppercase"} :
                   \A i \in (Len(issues[k]) + 1)..Len(issues'[k]) :
                       /\ Labelled(line, issues'[k][i].q_id) # <<>>
                       /\ issues'[k][i].text
                            = Prefix(Labelled(line, issues'[k][i].q_id)[1].question,
                                     Len(issues'[k][i].text))]_vars

(***************************************************************************)
(* The total of the layout decisions                                       *)
(***************************************************************************)

\* the layout decision blocks with a layoutType field in the first n files
RECURSIVE TypedBlocks(_, _)
TypedBlocks(fs, n) ==
    IF n = 0 THEN 0
    ELSE TypedBlocks(fs, n - 1)
         + Cardinality({ i \in 1..Len(fs[n].blocks) :
                             fs[n].blocks[i].layoutType # NoField })

\* C25: in summarize_results, after the results of any number of files have
\* been folded, total_layout_decisions is the sum of the values of
\* layout_distribution, and both are the number of layout decision blocks with
\* a layoutType field in the files folded so far.
C25_TotalIsSumOfDistribution ==
    script = "analysis_script" =>
        /\ summary.total_layout_decisions = SumValues(summary.layout_distribution)
        /\ summary.total_layout_decisions = TypedBlocks(files, fold_i)

\* two files folded, one of them with a block that has no layoutType field
C25_TwoFilesFolded ==
    /\ script = "analysis_script"
    /\ fold_i = 2
    /\ summary.total_layout_decisions >= 2
    /\ \E n \in 1..fold_i : \E i \in 1..Len(files[n].blocks) :
           files[n].blocks[i].layoutType = NoField

(***************************************************************************)
(* The counts of the final assessment                                      *)
(***************************************************************************)

\* C26: the three severity counts of the final assessment add up to the
\* number of Findings, and the minor count, computed as total minus critical
\* minus moderate, is the number of low_practice Findings, in every reachable
\* state: no Finding of a kind outside the three tiers is recorded, and none
\* of the kind missing_career; the report of a finished run prints these
\* counts.
C26_MinorIsLowPractice ==
    \A totals \in {print_detailed_summary([issues |-> issues, stats |-> stats,
                                           question_samples |-> question_samples]).totals} :
        /\ totals.critical + totals.moderate + totals.minor = TotalFindings(issues)
        /\ totals.minor = Len(issues["low_practice"])
        /\ rpc = "done" => printed.totals = totals

\* a finished run with Findings in each tier in which the career rule has
\* counted a question
C26_AllTiersCounted ==
    /\ rpc = "done"
    /\ printed.totals.critical >= 1
    /\ printed.totals.moderate >= 1
    /\ printed.totals.minor >= 1
    /\ \E s \in StudentDirs : stats[s]["missing_career"] >= 1

(***************************************************************************)
(* The bands partition the results                                         *)
(***************************************************************************)

\* the layout decision blocks of the first n files
RECURSIVE BlocksIn(_, _)
BlocksIn(fs, n) ==
    IF n = 0 THEN 0 ELSE BlocksIn(fs, n - 1) + Len(fs[n].blocks)

\* the sum of f over the bands
BandSum(f) == f["K-2"] + f["3-8"] + f["9-12"]

\* C27: analyze_grade_patterns partitions its input: after any number of
\* results have been folded, the students lists of the three bands hold one
\* entry per folded result, each result's student in exactly one band, and
\* the layout_preference counts of the three bands add up to the number of
\* layout decisions of the folded files, those without a layout type or a
\* subject included.
C27_BandsPartitionResults ==
    script = "detailed_layout_analysis" =>
        /\ BandSum([c \in DOMAIN grade_patterns |-> Len(grade_patterns[c].students)])
               = fold_i
        /\ \A n \in 1..fold_i :
               Cardinality({ c \in DOMAIN grade_patterns :
                   \E j \in 1..Len(grade_patterns[c].students) :
                       grade_patterns[c].students[j] = files[n].student }) = 1
        /\ BandSum([c \in DOMAIN grade_patterns |->
                       SumValues(grade_patterns[c].layout_preference)])
               = BlocksIn(files, fold_i)

\* results folded into two bands, one with a decision that names no subject
C27_TwoBandsFilled ==
    /\ script = "detailed_layout_analysis"
    /\ fold_i >= 2
    /\ Cardinality({ c \in DOMAIN grade_patterns :
                         grade_patterns[c].students # <<>> }) >= 2
    /\ \E n \in 1..fold_i : \E i \in 1..Len(files[n].blocks) :
           files[n].blocks[i].subject = NoField

====
